---- MODULE Spec2Model ----
(***************************************************************************)
(* Model of the cppdlr construction and transform layer:                   *)
(*   fineparams, build_k_if, build_dlr_rf, imfreq_ops, imtime_ops and the  *)
(*   transforms vals2coefs / coefs2vals / coefs2eval.                      *)
(*                                                                         *)
(* Numbers.  Real frequencies, relative times and the cutoff are kept as   *)
(* exact integers (lambda in units of 1/2, eps as a signed one-digit       *)
(* decimal m*10^e).  Kernel values are kept as symbolic terms: the value   *)
(* -1/(m*pi*i - om) is the term (m, om), the value of k_it_abs is the term *)
(* (branch, t, om).  Green's function values are formal linear             *)
(* combinations of kernel terms with rational coefficients, so that        *)
(* products, sums, the beta scaling and the linear solve are exact.        *)
(***************************************************************************)
EXTENDS Integers, Sequences, FiniteSets, TLC

VARIABLES rf, op, ret, diag

vars == <<rf, op, ret, diag>>

----------------------------------------------------------------------------
(* Bounds of the model *)

\* longest frequency vector a caller passes in
MaxRank == 2
\* rows within PivWin of the centre of a matrix are the ones the pivot
\* search may return after its first pivot
PivWin == 1

\* frequencies a caller may pass (signed integers standing for reals)
OmVals == {-2, -1, 1, 2}
\* coefficient values
CoefVals == {1, 2}
\* inverse temperatures
BetaVals == {2}
\* cutoffs lambda, in units of 1/2
LambdaVals == {-2, 0, 1, 2, 4}
\* panel orders
PVals == {-1, 0, 1, 24}

----------------------------------------------------------------------------
(* Exact arithmetic helpers *)

Abs(x) == IF x < 0 THEN -x ELSE x

Max(a, b) == IF a < b THEN b ELSE a

Min(a, b) == IF b < a THEN b ELSE a

RECURSIVE Gcd(_, _)
Gcd(a, b) == IF b = 0 THEN a ELSE Gcd(b, a % b)

\* rational n/d in lowest terms with d > 0
Rat(n, d) ==
  LET s == IF d < 0 THEN -1 ELSE 1
      g == Gcd(Abs(n), Abs(d))
  IN  <<(s * n) \div g, (s * d) \div g>>

RInt(n) == <<n, 1>>

RAdd(a, b) == Rat(a[1] * b[2] + b[1] * a[2], a[2] * b[2])

RMul(a, b) == Rat(a[1] * b[1], a[2] * b[2])

RDiv(a, b) == Rat(a[1] * b[2], a[2] * b[1])

RZero == <<0, 1>>

\* formal linear combination of kernel terms: a function from a finite set
\* of terms to nonzero rationals
LZero == [a \in {} |-> RZero]

LCoef(f, a) == IF a \in DOMAIN f THEN f[a] ELSE RZero

LNorm(f) == [a \in {x \in DOMAIN f : f[x] # RZero} |-> f[a]]

LAdd(f, g) == LNorm([a \in DOMAIN f \cup DOMAIN g |-> RAdd(LCoef(f, a), LCoef(g, a))])

LScale(q, f) == LNorm([a \in DOMAIN f |-> RMul(q, f[a])])

\* the product term * q
LTerm(a, q) == LNorm([x \in {a} |-> q])

RECURSIVE LSum(_, _, _)
\* sum over l = 1..n of row[l] * c[l]
LSum(row, c, n) == IF n = 0 THEN LZero ELSE LAdd(LSum(row, c, n - 1), LTerm(row[n], c[n]))

Range(s) == {s[i] : i \in DOMAIN s}

RECURSIVE StdSort(_)
\* std::sort on a vector of ints: the ascending rearrangement
StdSort(s) ==
  IF s = <<>> THEN <<>>
  ELSE LET mn == CHOOSE x \in Range(s) : \A y \in Range(s) : x <= y
           k  == CHOOSE i \in DOMAIN s : s[i] = mn
       IN  <<mn>> \o StdSort(SubSeq(s, 1, k - 1) \o SubSeq(s, k + 1, Len(s)))

----------------------------------------------------------------------------
(* Tolerances: a double eps is a signed one-digit decimal <<m, e>> = m*10^e  *)
(* with m in -9..9 and m = 0 only as <<0, 0>>                                *)

EpsVals == {<<-1, 0>>, <<0, 0>>, <<1, -15>>, <<9, -15>>, <<1, -14>>, <<2, -14>>,
            <<1, -10>>, <<5, -1>>, <<1, 0>>, <<2, 0>>}

\* a < b on such decimals
DecLt(a, b) ==
  IF a[1] <= 0 \/ b[1] <= 0
  THEN IF a[1] < 0 /\ b[1] < 0
       THEN (a[2] > b[2]) \/ (a[2] = b[2] /\ a[1] < b[1])
       ELSE (a[1] < 0 /\ b[1] >= 0) \/ (a[1] = 0 /\ b[1] > 0)
  ELSE (a[2] < b[2]) \/ (a[2] = b[2] /\ a[1] < b[1])

\* the literal 1e-14 of build_dlr_rf
WarnEps == <<1, -14>>

DecOne == <<1, 0>>

DecZero == <<0, 0>>

----------------------------------------------------------------------------
(* Kernels *)

Fermion == 1

Boson == 0

Statistics == {Fermion, Boson}

\* k_if(n, om) = -1 / (n*pi*i - om), kept as the term (n, om)
k_if2(n, om) == [k |-> "if", m |-> n, om |-> om, th |-> FALSE]

\* k_if(n, om, statistic) = -1 / ((2n + statistic)*pi*i - om)
k_if(n, om, statistic) == k_if2(2 * n + statistic, om)

\* x * tanh(0.5 * om) for a kernel term x at frequency om
TanhScale(x) == [x EXCEPT !.th = TRUE]

\* k_it_abs(t, om): exp(-t*om)/(1+exp(-om)) for om >= 0, else
\* exp((1-t)*om)/(1+exp(om)); the term records the branch taken
k_it_abs(t, om) ==
  IF om >= 0 THEN [k |-> "it", br |-> "pos", t |-> t, om |-> om]
  ELSE [k |-> "it", br |-> "neg", t |-> t, om |-> om]

k_it(t, om) == IF t >= 0 THEN k_it_abs(t, om) ELSE k_it_abs(-t, -om)

----------------------------------------------------------------------------
(* fineparams *)

\* the default argument p = 24
DefaultP == 24

\* the floor of the imaginary frequency cutoff
NmaxFloor == 20

\* ceil(h/2) for lambda = h/2
CeilHalf(h) == (h + 1) \div 2

RECURSIVE Pow2(_)
Pow2(k) == IF k = 0 THEN 1 ELSE 2 * Pow2(k - 1)

\* ceil(log(lambda)/log(2.0)) for lambda = h/2 > 0; values below -1 are
\* reported as -1 (every use takes max with 1)
CeilLog2(h) ==
  IF h <= 1 THEN -1
  ELSE CHOOSE k \in 0..30 : 2 * Pow2(k) >= h /\ \A j \in 0..(k - 1) : 2 * Pow2(j) < h

\* values a static_cast<int> of NaN produces (x86: INT_MIN, arm: 0); the
\* symbol "garbage" stands for any of them
Garbage == "garbage"

\* member initialisers without the floors max(., 1) and max(., 20)
FineFields_nofloor(h, p) ==
  LET lg == CeilLog2(h)
  IN  [lambda |-> h, p |-> p, nmax |-> CeilHalf(h), npom |-> lg, npt |-> lg - 2,
       nom |-> 2 * p * lg, nt |-> 2 * p * (lg - 2)]

\* member initialisers of fineparams(lambda, p), lambda = h/2:
\* log(0) = -inf takes the max with 1.0, log of a negative is NaN, which
\* std::max returns and the cast to int turns into garbage
FineFields(h, p) ==
  LET lg   == CeilLog2(h)
      npom == IF h > 0 THEN Max(lg, 1) ELSE IF h = 0 THEN 1 ELSE Garbage
      npt  == IF h > 0 THEN Max(lg - 2, 1) ELSE IF h = 0 THEN 1 ELSE Garbage
  IN  [lambda |-> h, p |-> p,
       nmax |-> Max(CeilHalf(h), NmaxFloor),
       npom |-> npom, npt |-> npt,
       nom |-> IF h < 0 THEN Garbage ELSE 2 * p * npom,
       nt  |-> IF h < 0 THEN Garbage ELSE 2 * p * npt]

\* a constructor that lets lambda = 0 through
FineThrows_strict(h, p) == h < 0 \/ p <= 0

\* the two checks in the constructor body
FineThrows(h, p) == h <= 0 \/ p <= 0

FineMsg(h, p) == IF h <= 0 THEN "Choose lambda > 0." ELSE "Choose p > 0."

\* outcome of constructing fineparams(lambda, p): the object or the exception
fineparams(h, p) ==
  IF FineThrows(h, p)
  THEN [status |-> "runtime_error", msg |-> FineMsg(h, p)]
  ELSE [status |-> "ok", obj |-> FineFields(h, p)]

----------------------------------------------------------------------------
(* Fine grids.  A grid point is a signed integer: the points of the upper  *)
(* half of the frequency grid are 1, 2, ... in storage order and the lower *)
(* half is their mirror image; the time grid is stored the other way round *)
(* (positive first half, negated second half: relative format).            *)

\* build_rf_fine: om(range(0, npom*p)) = -om(range(2*npom*p - 1, npom*p - 1, -1))
\* a grid whose lower half negates the upper half without reversing it
build_rf_fine_unreversed(fine) ==
  LET half == fine.npom * fine.p
  IN  [i \in 0..(fine.nom - 1) |-> IF i >= half THEN i - half + 1 ELSE -(i + 1)]

build_rf_fine(fine) ==
  LET half == fine.npom * fine.p
  IN  [i \in 0..(fine.nom - 1) |-> IF i >= half THEN i - half + 1 ELSE -(half - i)]

\* build_it_fine: t(range(npt*p, 2*npt*p)) = -t(range(npt*p - 1, -1, -1))
build_it_fine(fine) ==
  LET half == fine.npt * fine.p
  IN  [i \in 0..(fine.nt - 1) |-> IF i < half THEN i + 1 ELSE -(fine.nt - i)]

\* The same two grids with their values.  A point a + (b - a) * x(k) of the
\* panel (a, b) is kept as the panel, the number k of the node x(k) of the
\* rule on [0, 1] and the sign; a weight sqrt(((b - a) / 2) * wgl(k)) as
\* the factor (b - a) / 2 and the number k.
Negated(pt) == [pt EXCEPT !.neg = ~pt.neg]

\* panels whose right endpoints are lambda / 2^(npom - i), so that the last
\* one ends at lambda / 2
build_rf_fine_om_short(fine) ==
  LET p    == fine.p
      npom == fine.npom
      half == npom * p
      up(i) == LET pan == i \div p
               IN  [neg |-> FALSE,
                    a |-> IF pan = 0 THEN RZero ELSE Rat(fine.lambda, 2 * Pow2(npom - pan + 1)),
                    b |-> Rat(fine.lambda, 2 * Pow2(npom - pan)),
                    x |-> i % p]
  IN  [i \in 0..(fine.nom - 1) |->
         IF i >= half THEN up(i - half) ELSE Negated(up(half - 1 - i))]

\* build_rf_fine: the vector om.  Panel i of the upper half runs from the
\* right endpoint of panel i - 1 (0 for the first) to
\* b = lambda / 2^(npom - i - 1); om(0 .. npom*p - 1) is the negated upper
\* half read backwards.  lambda = fine.lambda / 2
build_rf_fine_om(fine) ==
  LET p    == fine.p
      npom == fine.npom
      half == npom * p
      up(i) == LET pan == i \div p
               IN  [neg |-> FALSE,
                    a |-> IF pan = 0 THEN RZero ELSE Rat(fine.lambda, 2 * Pow2(npom - pan)),
                    b |-> Rat(fine.lambda, 2 * Pow2(npom - pan - 1)),
                    x |-> i % p]
  IN  [i \in 0..(fine.nom - 1) |->
         IF i >= half THEN up(i - half) ELSE Negated(up(half - 1 - i))]

\* build_it_fine: the pair (t, w).  Panel i of the first half runs to
\* b = 1 / 2^(npt - i); the second half of t is the negated first half read
\* backwards, the second half of w the first half read backwards
build_it_fine_tw(fine) ==
  LET p    == fine.p
      npt  == fine.npt
      half == npt * p
      lo(pan) == IF pan = 0 THEN RZero ELSE Rat(1, Pow2(npt - pan + 1))
      hi(pan) == Rat(1, Pow2(npt - pan))
      t1(i) == [neg |-> FALSE, a |-> lo(i \div p), b |-> hi(i \div p), x |-> i % p]
      w1(i) == [scale |-> RDiv(RAdd(hi(i \div p), <<-lo(i \div p)[1], lo(i \div p)[2]>>), RInt(2)),
                wgl |-> i % p]
  IN  [t |-> [i \in 0..(fine.nt - 1) |-> IF i < half THEN t1(i) ELSE Negated(t1(2 * half - 1 - i))],
       w |-> [i \in 0..(fine.nt - 1) |-> IF i < half THEN w1(i) ELSE w1(2 * half - 1 - i)]]

\* build_k_it(t, om): kmat(i, j) = k_it(t(i), om(j))
build_k_it(t, om) ==
  [i \in DOMAIN t |-> [j \in 1..Len(om) |-> k_it(t[i], om[j])]]

\* a bosonic matrix without the row of n = nmax
build_k_if_open(nmax, om, statistic) ==
  [i \in 0..(2 * nmax - 1) |-> [j \in 1..Len(om) |-> k_if(i - nmax, om[j], statistic)]]

\* build_k_if(nmax, om, statistic): row nmax + n holds k_if(n, om(j), statistic)
\* for n = -nmax..nmax-1 (Fermion) or -nmax..nmax (Boson)
build_k_if(nmax, om, statistic) ==
  LET rows == IF statistic = Fermion THEN 2 * nmax ELSE 2 * nmax + 1
  IN  [i \in 0..(rows - 1) |-> [j \in 1..Len(om) |-> k_if(i - nmax, om[j], statistic)]]

----------------------------------------------------------------------------
(* Pivoted Gram-Schmidt.  The residual norms are floating point data the   *)
(* model does not carry, so the selection is a choice over the row sets    *)
(* the stopping rule allows; the first pivot of an imaginary frequency     *)
(* kernel matrix is known (its rows decay in |2n + s|, lowest index wins). *)

\* the literal 1e-100 the operators pass
TinyEps == <<1, -100>>

Mirror(m, i) == m - 1 - i

Centred(m, w) == {i \in 0..(m - 1) : Abs(2 * i - (m - 1)) <= 2 * w + 1}

\* rows the search may return when it returns k rows of an m-row matrix
Window(m, k) ==
  LET w == CHOOSE w \in PivWin..m :
             /\ Cardinality(Centred(m, w)) >= Min(k, m)
             /\ \A v \in PivWin..(w - 1) : Cardinality(Centred(m, v)) < Min(k, m)
  IN  Centred(m, w)

\* the k-element subsets of W (W itself when it has at most k elements)
KSub(W, k) ==
  IF Cardinality(W) <= k THEN {W}
  ELSE IF Cardinality(W) = k + 1 THEN {W \ {x} : x \in W}
  ELSE {S \in SUBSET W : Cardinality(S) = k}

\* k-element subsets of the window (k <= m)
KSubsets(m, k) == KSub(Window(m, k), k)

\* number of rows selected in tolerance mode on a matrix of numerical rank
\* rho with full = min(m, n): the first pivot is dropped when eps > 1, no
\* pivot is below eps * first when eps <= 0, a tiny eps stops at a zero
\* residual only
TolCounts(eps, rho, full) ==
  IF DecLt(DecOne, eps) THEN {0}
  ELSE IF ~DecLt(DecZero, eps) THEN {full}
  ELSE IF eps[2] <= TinyEps[2] THEN rho..full
  ELSE 1..Min(rho, MaxRank)

RECURSIVE Descending(_)
\* the rows of S in descending order
Descending(S) ==
  IF S = {} THEN <<>>
  ELSE LET mx == CHOOSE x \in S : \A y \in S : y <= x
       IN  <<mx>> \o Descending(S \ {mx})

\* selection order: the first pivot, then the others
PivOrder(S, first) ==
  IF first \in S THEN <<first>> \o Descending(S \ {first}) ELSE Descending(S)

\* pivrgs(a, eps) for an m x n matrix: the pivot vectors it may return;
\* first = -1 when the first pivot is not known
pivrgs(m, n, rho, eps, first) ==
  {PivOrder(S, first) :
     S \in UNION {{T \in KSubsets(m, k) : k = 0 \/ first = -1 \/ first \in T} :
                    k \in TolCounts(eps, rho, Min(m, n))}}

\* row sets of the symmetric variant: steps pairs of (i, m-1-i), plus the
\* centre row when withCentre
SymSets(m, steps, withCentre) ==
  LET c == (m - 1) \div 2
      W == Window(m, 2 * steps + 1)
      lower == {i \in W : i < Mirror(m, i)}
  IN  {(IF withCentre THEN {c} ELSE {}) \cup L \cup {Mirror(m, i) : i \in L} :
         L \in KSub(lower, steps)}

\* pivrgs_sym(a, eps) on a matrix with an even number of rows: pairs only
pivrgs_sym_tol(m, n, rho, eps) ==
  {Descending(S) :
     S \in UNION {SymSets(m, (k + 1) \div 2, FALSE) : k \in TolCounts(eps, rho, Min(m, n))}}

\* pivrgs_sym(a, r): one centre row or one pair per step until the count
\* reaches r; the first step takes the largest row: the centre row of a
\* bosonic (odd) grid, the innermost pair of a fermionic (even) one
pivrgs_sym_rank(m, r) ==
  LET odd   == m % 2 = 1
      c     == (m - 1) \div 2
      steps == IF odd THEN r \div 2 ELSE (r + 1) \div 2
  IN  {PivOrder(S, c) : S \in {T \in SymSets(m, steps, odd) : r = 0 \/ c \in T}}

----------------------------------------------------------------------------
(* Pivoted reorthogonalized Gram-Schmidt in exact arithmetic.  A matrix is *)
(* a sequence of rows of Gaussian rationals <<re, im>>; a row q of Q is    *)
(* kept as the residual u and its squared norm nsq, q = u / sqrt(nsq), so  *)
(* that no square root is taken; norms are squared norms.                  *)

RNeg(a) == <<-a[1], a[2]>>

RLt(a, b) == a[1] * b[2] < b[1] * a[2]

CInt(x, y) == <<RInt(x), RInt(y)>>

CZero == CInt(0, 0)

CAdd(x, y) == <<RAdd(x[1], y[1]), RAdd(x[2], y[2])>>

CSub(x, y) == <<RAdd(x[1], RNeg(y[1])), RAdd(x[2], RNeg(y[2]))>>

CMul(x, y) ==
  <<RAdd(RMul(x[1], y[1]), RNeg(RMul(x[2], y[2]))),
    RAdd(RMul(x[1], y[2]), RMul(x[2], y[1]))>>

CConj(z) == <<z[1], RNeg(z[2])>>

\* z / d for a rational d # 0
CDivR(z, d) == <<RDiv(z[1], d), RDiv(z[2], d)>>

RECURSIVE dotu(_, _, _)
\* the sum over k = 1..n of x[k] * y[k], without conjugation
dotu(x, y, n) ==
  IF n = 0 THEN CZero ELSE CAdd(dotu(x, y, n - 1), CMul(x[n], y[n]))

RECURSIVE dotc(_, _, _)
\* the inner product: the sum over k = 1..n of x[k] * conj(y[k])
dotc(x, y, n) ==
  IF n = 0 THEN CZero ELSE CAdd(dotc(x, y, n - 1), CMul(x[n], CConj(y[n])))

\* squared Euclidean norm of a row
NormSq(x) == dotc(x, x, Len(x))[1]

\* one pass of orthogonalization of row x against the pivot row u
OrthPass(x, u, nsq) ==
  LET c == CDivR(dotc(x, u, Len(x)), nsq)
  IN  [k \in 1..Len(x) |-> CSub(x[k], CMul(c, u[k]))]

\* two passes per step: the reorthogonalization
Orth(x, u, nsq) == OrthPass(OrthPass(x, u, nsq), u, nsq)

\* a choice of pivot that takes the highest index on equal norms
PivChoose_last(nrm) ==
  CHOOSE k \in DOMAIN nrm : \A j \in DOMAIN nrm :
    /\ ~RLt(nrm[k], nrm[j])
    /\ nrm[j] = nrm[k] => j <= k

\* the remaining row with the largest residual norm nrm, lowest index on
\* ties
PivChoose(nrm) ==
  CHOOSE k \in DOMAIN nrm : \A j \in DOMAIN nrm :
    /\ ~RLt(nrm[k], nrm[j])
    /\ nrm[j] = nrm[k] => k <= j

\* a stopping test that takes eps as an absolute tolerance
PivStop_absolute(nsq, first, epssq) == RLt(nsq, epssq)

\* the stopping test: the pivot norm is below eps times the first pivot
\* norm (on squared norms)
PivStop(nsq, first, epssq) == RLt(nsq, RMul(epssq, first))

RECURSIVE PivSteps_onebased(_, _, _, _, _, _)
\* a selection loop that records the pivots as row numbers counted from 1
PivSteps_onebased(res, rem, sel, first, epssq, cap) ==
  IF rem = {} \/ Len(sel) >= cap THEN [status |-> "ok", sel |-> sel]
  ELSE LET nrm == [k \in rem |-> NormSq(res[k])]
           p   == PivChoose(nrm)
           nsq == nrm[p]
           f   == IF sel = <<>> THEN nsq ELSE first
       IN  IF PivStop(nsq, f, epssq) THEN [status |-> "ok", sel |-> sel]
           ELSE IF nsq = RZero THEN [status |-> "nan", sel |-> sel]
           ELSE PivSteps_onebased([k \in DOMAIN res |->
                            IF k \in rem \ {p} THEN Orth(res[k], res[p], nsq) ELSE res[k]],
                         rem \ {p},
                         Append(sel, [piv |-> p, u |-> res[p], nsq |-> nsq]),
                         f, epssq, cap)

RECURSIVE PivSteps(_, _, _, _, _, _)
\* the selection loop: res the residual rows, rem the rows not yet
\* selected, sel the steps taken, first the squared norm of the first
\* pivot, epssq the squared tolerance, cap the largest number of rows
PivSteps(res, rem, sel, first, epssq, cap) ==
  IF rem = {} \/ Len(sel) >= cap THEN [status |-> "ok", sel |-> sel]
  ELSE LET nrm == [k \in rem |-> NormSq(res[k])]
           p   == PivChoose(nrm)
           nsq == nrm[p]
           f   == IF sel = <<>> THEN nsq ELSE first
       IN  IF PivStop(nsq, f, epssq) THEN [status |-> "ok", sel |-> sel]
           ELSE IF nsq = RZero THEN [status |-> "nan", sel |-> sel]
           ELSE PivSteps([k \in DOMAIN res |->
                            IF k \in rem \ {p} THEN Orth(res[k], res[p], nsq) ELSE res[k]],
                         rem \ {p},
                         Append(sel, [piv |-> p - 1, u |-> res[p], nsq |-> nsq]),
                         f, epssq, cap)

\* pivrgs(a, eps) on the matrix a: (Q, norms, piv) or a matrix of NaN
pivrgs_gs(a, eps) ==
  LET m   == Len(a)
      n   == IF m = 0 THEN 0 ELSE Len(a[1])
      run == PivSteps(a, 1..m, <<>>, RZero, RMul(eps, eps), Min(m, n))
  IN  IF run.status # "ok" THEN [status |-> run.status]
      ELSE [status |-> "ok",
            q     |-> [i \in 1..Len(run.sel) |-> [u |-> run.sel[i].u, nsq |-> run.sel[i].nsq]],
            norms |-> [i \in 1..Len(run.sel) |-> run.sel[i].nsq],
            piv   |-> [i \in 1..Len(run.sel) |-> run.sel[i].piv]]

\* pivrgs in rank-target mode: selection stops when r_target rows are
\* selected; no tolerance stops it
pivrgs_gs_rank(a, r_target) ==
  LET run == PivSteps(a, 1..Len(a), <<>>, RZero, RZero, r_target)
  IN  IF run.status # "ok" THEN [status |-> run.status]
      ELSE [status |-> "ok",
            q     |-> [i \in 1..Len(run.sel) |-> [u |-> run.sel[i].u, nsq |-> run.sel[i].nsq]],
            norms |-> [i \in 1..Len(run.sel) |-> run.sel[i].nsq],
            piv   |-> [i \in 1..Len(run.sel) |-> run.sel[i].piv]]

----------------------------------------------------------------------------
(* LAPACK services *)

\* the matrix has two equal rows or two equal columns (a kernel matrix on
\* distinct nodes and distinct frequencies is a nonsingular Cauchy matrix)
Singular(mat, n) ==
  \/ \E i, j \in 1..n : i < j /\ mat[i] = mat[j]
  \/ \E i, j \in 1..n : i < j /\ \A k \in 1..n : mat[k][i] = mat[k][j]

\* a default-constructed (empty) factorization
NoLu == [set |-> FALSE]

\* getrf(lu, piv): the factors of mat, kept as the matrix they factor, and
\* the info value LAPACK returns (> 0: an exactly zero pivot, singular)
getrf(mat, n) == [set |-> TRUE, of |-> mat, n |-> n, info |-> IF Singular(mat, n) THEN 1 ELSE 0]

\* the right-hand side b is mat * x for a rational vector x
Solves(mat, n, x, b) == \A i \in 1..n : b[i] = LSum(mat[i], x, n)

\* getrs(lu, b, piv): the solution x of lu.of * x = b; the coefficient of
\* b(1) at the term lu.of(1, j) when b lies in the span over the rationals
\* (exact); any other solution is not a rational vector and is kept as the
\* right-hand side it solves
getrs(lu, b) ==
  LET x == [j \in 1..lu.n |-> LCoef(b[1], lu.of[1][j])]
  IN  IF lu.info = 0 /\ Solves(lu.of, lu.n, x, b)
      THEN [exact |-> TRUE, x |-> x]
      ELSE [exact |-> FALSE, x |-> <<>>, rhs |-> b]

----------------------------------------------------------------------------
(* Operators *)

NoOp == [kind |-> "none"]

NoRf == [set |-> FALSE]

NoRet == [call |-> "none"]

\* frequency vectors a caller passes: non-decreasing, length 1..MaxRank
CallerRf ==
  UNION {{s \in [1..n -> OmVals] : \A i \in 1..(n - 1) : s[i] <= s[i + 1]} : n \in 1..MaxRank}

\* number of distinct frequencies: the rank of a kernel matrix on them
NumRank(dlr_rf) == Cardinality(Range(dlr_rf))

\* the values piv(0), ..., piv(cnt-1) the constructor reads from the sorted
\* pivot vector; an element past its end is an out-of-bounds read, which
\* yields any row number
ReadPiv(sorted, cnt, m) ==
  {q \in [1..cnt -> Range(sorted) \cup Centred(m, PivWin)] :
     \A i \in 1..Min(cnt, Len(sorted)) : q[i] = sorted[i]}

\* a constructor that asks for r nodes whatever the statistic
ImfreqNiom_square(statistic, symmetrize, r) == r

\* niom = (statistic == Boson && symmetrize) ? r + 1 : r
ImfreqNiom(statistic, symmetrize, r) ==
  IF statistic = Boson /\ symmetrize THEN r + 1 ELSE r

\* an operator that reports its number of nodes as its rank
ImfreqBuild_niomrank(h, dlr_rf, statistic, symmetrize, nmax, kmat, piv, q) ==
  LET r     == Len(dlr_rf)
      niom  == ImfreqNiom(statistic, symmetrize, r)
      cf2if == [i \in 1..niom |-> [j \in 1..r |-> kmat[q[i]][j]]]
  IN  [kind |-> "imfreq", lambda |-> h, statistic |-> statistic, r |-> niom,
       dlr_rf |-> dlr_rf,
       dlr_if |-> [i \in 1..niom |-> q[i] - nmax],
       cf2if |-> cf2if,
       lu |-> IF ~(symmetrize /\ statistic = Boson) THEN getrf(cf2if, r) ELSE NoLu,
       symmetrize |-> symmetrize, piv |-> piv]

\* the object imfreq_ops(lambda, dlr_rf, statistic, symmetrize) builds from
\* the pivot vector piv that the Gram-Schmidt step returned and the values
\* q it read from it after sorting
ImfreqBuild(h, dlr_rf, statistic, symmetrize, nmax, kmat, piv, q) ==
  LET r     == Len(dlr_rf)
      niom  == ImfreqNiom(statistic, symmetrize, r)
      cf2if == [i \in 1..niom |-> [j \in 1..r |-> kmat[q[i]][j]]]
  IN  [kind |-> "imfreq", lambda |-> h, statistic |-> statistic, r |-> r,
       dlr_rf |-> dlr_rf,
       dlr_if |-> [i \in 1..niom |-> q[i] - nmax],
       cf2if |-> cf2if,
       lu |-> IF ~(symmetrize /\ statistic = Boson) THEN getrf(cf2if, r) ELSE NoLu,
       symmetrize |-> symmetrize, piv |-> piv]

\* outcomes of imfreq_ops(lambda, dlr_rf, statistic, symmetrize)
imfreq_ops(h, dlr_rf, statistic, symmetrize) ==
  LET fp == fineparams(h, DefaultP)
  IN  IF fp.status # "ok" THEN {fp}
      ELSE LET nmax == fp.obj.nmax
               kmat == build_k_if(nmax, dlr_rf, statistic)
               m    == Cardinality(DOMAIN kmat)
               r    == Len(dlr_rf)
               niom == ImfreqNiom(statistic, symmetrize, r)
               pivs == IF symmetrize THEN pivrgs_sym_rank(m, niom)
                       ELSE pivrgs(m, r, NumRank(dlr_rf), TinyEps, (m - 1) \div 2)
           IN  UNION {{[status |-> "ok",
                        obj |-> ImfreqBuild(h, dlr_rf, statistic, symmetrize, nmax, kmat, piv, q)] :
                         q \in ReadPiv(StdSort(piv), niom, m)}
                      \cup (IF Len(piv) < niom THEN {[status |-> "crash"]} ELSE {}) :
                      piv \in pivs}

\* the object the statistic-only constructor builds: the bosonic matrix is
\* scaled by tanh(0.5 * dlr_rf(j)) before it is factored
ImfreqBuildStat(h, dlr_rf, statistic, nmax, kmat, piv, q) ==
  LET r     == Len(dlr_rf)
      raw   == [i \in 1..r |-> [j \in 1..r |-> kmat[q[i]][j]]]
      cf2if == IF statistic = Boson
               THEN [i \in 1..r |-> [j \in 1..r |-> TanhScale(raw[i][j])]]
               ELSE raw
  IN  [kind |-> "imfreq", lambda |-> h, statistic |-> statistic, r |-> r,
       dlr_rf |-> dlr_rf,
       dlr_if |-> [i \in 1..r |-> q[i] - nmax],
       cf2if |-> cf2if,
       lu |-> getrf(cf2if, r),
       symmetrize |-> FALSE, piv |-> piv]

\* outcomes of imfreq_ops(lambda, dlr_rf, statistic)
imfreq_ops_stat(h, dlr_rf, statistic) ==
  LET fp == fineparams(h, DefaultP)
  IN  IF fp.status # "ok" THEN {fp}
      ELSE LET nmax == fp.obj.nmax
               kmat == build_k_if(nmax, dlr_rf, statistic)
               m    == Cardinality(DOMAIN kmat)
               r    == Len(dlr_rf)
           IN  UNION {{[status |-> "ok",
                        obj |-> ImfreqBuildStat(h, dlr_rf, statistic, nmax, kmat, piv, q)] :
                         q \in ReadPiv(StdSort(piv), r, m)}
                      \cup (IF Len(piv) < r THEN {[status |-> "crash"]} ELSE {}) :
                      piv \in pivrgs(m, r, NumRank(dlr_rf), TinyEps, (m - 1) \div 2)}

\* imtime_ops without the std::sort of the pivots
ImtimeBuild_unsorted(h, dlr_rf, symmetrize, t, kmat, piv, q) ==
  LET r     == Len(dlr_rf)
      u     == [i \in 1..r |-> IF i <= Len(piv) THEN piv[i] ELSE q[i]]
      cf2it == [i \in 1..r |-> [j \in 1..r |-> kmat[u[i]][j]]]
  IN  [kind |-> "imtime", lambda |-> h, r |-> r, dlr_rf |-> dlr_rf,
       dlr_it |-> [i \in 1..r |-> t[u[i]]],
       cf2it |-> cf2it,
       lu |-> getrf(cf2it, r),
       symmetrize |-> symmetrize, piv |-> piv, q |-> q]

\* the object imtime_ops(lambda, dlr_rf, symmetrize) builds
ImtimeBuild(h, dlr_rf, symmetrize, t, kmat, piv, q) ==
  LET r     == Len(dlr_rf)
      cf2it == [i \in 1..r |-> [j \in 1..r |-> kmat[q[i]][j]]]
  IN  [kind |-> "imtime", lambda |-> h, r |-> r, dlr_rf |-> dlr_rf,
       dlr_it |-> [i \in 1..r |-> t[q[i]]],
       cf2it |-> cf2it,
       lu |-> getrf(cf2it, r),
       symmetrize |-> symmetrize, piv |-> piv, q |-> q]

\* outcomes of imtime_ops(lambda, dlr_rf, symmetrize)
imtime_ops(h, dlr_rf, symmetrize) ==
  LET fp == fineparams(h, DefaultP)
  IN  IF fp.status # "ok" THEN {fp}
      ELSE LET t    == build_it_fine(fp.obj)
               kmat == build_k_it(t, dlr_rf)
               m    == fp.obj.nt
               r    == Len(dlr_rf)
               pivs == IF ~symmetrize THEN pivrgs(m, r, NumRank(dlr_rf), TinyEps, -1)
                       ELSE pivrgs_sym_tol(m, r, NumRank(dlr_rf), TinyEps)
           IN  UNION {{[status |-> "ok",
                        obj |-> ImtimeBuild(h, dlr_rf, symmetrize, t, kmat, piv, q)] :
                         q \in ReadPiv(StdSort(piv), r, m)}
                      \cup (IF Len(piv) < r THEN {[status |-> "crash"]} ELSE {}) :
                      piv \in pivs}

\* imtime_ops::build_evalvec(t)
it_build_evalvec(o, t) ==
  IF t >= 0 THEN [l \in 1..o.r |-> k_it_abs(t, o.dlr_rf[l])]
  ELSE [l \in 1..o.r |-> k_it_abs(-t, -o.dlr_rf[l])]

----------------------------------------------------------------------------
(* build_dlr_rf *)

\* a test eps <= 1e-14
WarnsOn_closed(eps) == ~DecLt(WarnEps, eps)

\* the test eps < 1e-14 that guards the warning
WarnsOn(eps) == DecLt(eps, WarnEps)

\* a selection that reads the pivots in the order they were returned
SelectRf_unsorted(h, eps, symmetrize, warned) ==
  LET fp == fineparams(h, DefaultP)
  IN  IF fp.status # "ok" THEN {[status |-> fp.status, msg |-> fp.msg, warned |-> warned]}
      ELSE LET om   == build_rf_fine(fp.obj)
               m    == fp.obj.nom
               n    == fp.obj.nt
               pivs == IF symmetrize THEN pivrgs_sym_tol(m, n, Min(m, n), eps)
                       ELSE pivrgs(m, n, Min(m, n), eps, -1)
           IN  {[status |-> "ok", warned |-> warned,
                 val |-> [i \in 1..Len(p) |-> om[p[i]]]] :
                  p \in pivs}

\* the part of build_dlr_rf after the warning: fine grid parameters, fine
\* grids, pivoted Gram-Schmidt, sorted pivots, selected frequencies
SelectRf(h, eps, symmetrize, warned) ==
  LET fp == fineparams(h, DefaultP)
  IN  IF fp.status # "ok" THEN {[status |-> fp.status, msg |-> fp.msg, warned |-> warned]}
      ELSE LET om   == build_rf_fine(fp.obj)
               m    == fp.obj.nom
               n    == fp.obj.nt
               pivs == IF symmetrize THEN pivrgs_sym_tol(m, n, Min(m, n), eps)
                       ELSE pivrgs(m, n, Min(m, n), eps, -1)
           IN  {[status |-> "ok", warned |-> warned,
                 val |-> LET piv == StdSort(p) IN [i \in 1..Len(p) |-> om[piv[i]]]] :
                  p \in pivs}

\* a build_dlr_rf that rejects a tolerance outside (0, 1)
build_dlr_rf_ranged(h, eps, symmetrize) ==
  IF ~(DecLt(DecZero, eps) /\ DecLt(eps, DecOne))
  THEN {[status |-> "runtime_error", msg |-> "eps", warned |-> FALSE]}
  ELSE SelectRf(h, eps, symmetrize, WarnsOn(eps))

\* outcomes of build_dlr_rf(lambda, eps, symmetrize); warned: a line was
\* written to std::cerr
build_dlr_rf(h, eps, symmetrize) == SelectRf(h, eps, symmetrize, WarnsOn(eps))

----------------------------------------------------------------------------
(* Transforms of imfreq_ops (arrays of rank 1) *)

DimError == [status |-> "runtime_error", msg |-> "First dim of g != DLR rank r."]

\* a guard that lets a longer array through
DimMismatch_short(o, a) == o.r > Len(a)

\* the guard r != g.shape(0) of the three transforms
DimMismatch(o, a) == o.r # Len(a)

\* g / beta and beta * gc, element by element
DivArr(g, beta) == [i \in 1..Len(g) |-> LScale(RDiv(RInt(1), RInt(beta)), g[i])]

MulCoefs(beta, gc) == [i \in 1..Len(gc) |-> RMul(RInt(beta), gc[i])]

\* vals2coefs(g)
vals2coefs(o, g) ==
  IF DimMismatch(o, g) THEN {DimError}
  ELSE IF ~o.lu.set THEN {[status |-> "undefined"]}
  ELSE LET sol == getrs(o.lu, g)
       IN  {[status |-> "ok", val |-> sol.x, sol |-> sol]}

\* vals2coefs(beta, g) = vals2coefs(g / beta)
vals2coefs_beta(o, beta, g) == vals2coefs(o, DivArr(g, beta))

\* cf2if * gc
ApplyCf2if(o, gc) == [i \in 1..Len(o.cf2if) |-> LSum(o.cf2if[i], gc, o.r)]

\* reshape(g, shape) of an array of n elements to a shape of k elements:
\* a size mismatch stops the program where the library checks it and hands
\* out the leading k elements where it does not
Reshape(g, k) ==
  IF Len(g) = k THEN {[status |-> "ok", val |-> g]}
  ELSE {[status |-> "abort"], [status |-> "ok", val |-> SubSeq(g, 1, Min(k, Len(g)))]}

\* coefs2vals(gc)
coefs2vals(o, gc) ==
  IF DimMismatch(o, gc) THEN {DimError}
  ELSE Reshape(ApplyCf2if(o, gc), Len(gc))

\* coefs2vals(beta, gc) = coefs2vals(beta * gc)
coefs2vals_beta(o, beta, gc) == coefs2vals(o, MulCoefs(beta, gc))

\* imfreq_ops::build_evalvec(n)
build_evalvec(o, n) == [l \in 1..o.r |-> k_if(n, o.dlr_rf[l], o.statistic)]

\* coefs2eval(gc, n): sum over l of k_if(n, dlr_rf(l), statistic) * gc(l)
coefs2eval(o, gc, n) ==
  IF DimMismatch(o, gc) THEN DimError
  ELSE [status |-> "ok", val |-> LSum(build_evalvec(o, n), gc, o.r)]

\* coefs2eval(beta, gc, n) = beta * coefs2eval(gc, n)
coefs2eval_beta(o, beta, gc, n) ==
  LET e == coefs2eval(o, gc, n)
  IN  IF e.status # "ok" THEN e ELSE [status |-> "ok", val |-> LScale(RInt(beta), e.val)]

\* coefficient arrays a caller passes: leading dimension 1..MaxRank+1
CoefArrays ==
  UNION {{c \in [1..n -> {RInt(v) : v \in CoefVals}] : \A i \in 2..(n - 1) : c[i] = c[1]} :
           n \in 1..(MaxRank + 1)}

\* values of G(i om_n) = sum over l of c(l) * K(n, dlr_rf(l), s) at the
\* nodes n of the operator, as the tests sample them
SampleAt(o, c, n) == LSum([l \in 1..o.r |-> k_if(n, o.dlr_rf[l], o.statistic)], c, o.r)

Sample(o, c) == [i \in 1..Len(o.dlr_if) |-> SampleAt(o, c, o.dlr_if[i])]

\* value arrays a caller passes: samples of such a G, also with the
\* leading dimension one short or one long
ValueArrays(o) ==
  UNION {{Sample(o, c), Sample(o, c) \o <<LZero>>} \cup
         (IF Len(o.dlr_if) > 1 THEN {SubSeq(Sample(o, c), 1, Len(o.dlr_if) - 1)} ELSE {}) :
           c \in {x \in CoefArrays : Len(x) = o.r}}

----------------------------------------------------------------------------
(* Transforms of imfreq_ops on arrays of any rank.  An array is its shape  *)
(* and its elements in row-major order; the trailing axes of an array of   *)
(* leading dimension r are its size / r columns.                           *)

RECURSIVE NdSize(_)
\* number of elements of an array of the given shape
NdSize(shape) == IF shape = <<>> THEN 1 ELSE shape[1] * NdSize(Tail(shape))

NdArr(shape, data) == [shape |-> shape, data |-> data]

\* nda::reshape(a, shape): the same elements under another shape; shapes of
\* another size stop the program where the library checks it and hand out
\* the leading elements where it does not
NdReshape(a, shape) ==
  IF NdSize(shape) = Len(a.data) THEN {[status |-> "ok", val |-> NdArr(shape, a.data)]}
  ELSE {[status |-> "abort"],
        [status |-> "ok",
         val |-> NdArr(shape, SubSeq(a.data, 1, Min(NdSize(shape), Len(a.data))))]}

\* a matrix read under the swapped shape without moving its elements
NdTranspose_reinterpret(mat) == NdArr(<<mat.shape[2], mat.shape[1]>>, mat.data)

\* transpose(mat) of an n1 x n2 matrix: element (k, i) is mat(i, k)
NdTranspose(mat) ==
  LET n1 == mat.shape[1]
      n2 == mat.shape[2]
  IN  NdArr(<<n2, n1>>,
            [x \in 1..(n1 * n2) |-> mat.data[((x - 1) % n1) * n2 + ((x - 1) \div n1) + 1]])

\* row i of a matrix
NdRow(mat, i) == [k \in 1..mat.shape[2] |-> mat.data[(i - 1) * mat.shape[2] + k]]

\* the matrix with the given rows of length n
NdFromRows(rows, n) ==
  NdArr(<<Len(rows), n>>, [x \in 1..(Len(rows) * n) |-> rows[((x - 1) \div n) + 1][((x - 1) % n) + 1]])

\* the solution vector getrs leaves in place of a right-hand side: the
\* rational solution, or, where there is none, component by component the
\* solution of the system with that right-hand side (a triple, where a
\* rational is a pair)
SolVec(sol, n) ==
  IF sol.exact THEN sol.x ELSE [i \in 1..n |-> <<"solve", sol.rhs, i>>]

\* vals2coefs(g): reshape to r x (size / r), transpose, solve every row of
\* the transpose as a right-hand side, transpose back, reshape to g.shape()
vals2coefs_nd(o, g) ==
  IF o.r # g.shape[1] THEN {DimError}
  ELSE IF ~o.lu.set THEN {[status |-> "undefined"]}
  ELSE LET g_rs == NdArr(<<o.r, Len(g.data) \div o.r>>, g.data)
           gct  == NdTranspose(g_rs)
           sol  == NdFromRows([k \in 1..gct.shape[1] |->
                                 SolVec(getrs(o.lu, NdRow(gct, k)), o.r)], o.r)
           gc   == NdTranspose(sol)
       IN  NdReshape(gc, g.shape)

\* coefs2vals(gc): reshape to r x (size / r), cf2if * gc_rs, reshape to
\* gc.shape()
coefs2vals_nd(o, gc) ==
  IF o.r # gc.shape[1] THEN {DimError}
  ELSE LET gc_rs == NdArr(<<o.r, Len(gc.data) \div o.r>>, gc.data)
           cols  == NdTranspose(gc_rs)
           g     == NdFromRows([i \in 1..Len(o.cf2if) |->
                                  [k \in 1..gc_rs.shape[2] |->
                                     LSum(o.cf2if[i], NdRow(cols, k), o.r)]],
                               gc_rs.shape[2])
       IN  NdReshape(g, gc.shape)

\* coefs2eval(gc, n): the loop over l for an array of rank 1, else
\* transpose(gc_rs) * build_evalvec(n) reshaped to the trailing shape
coefs2eval_nd(o, gc, n) ==
  IF o.r # gc.shape[1] THEN {DimError}
  ELSE IF Len(gc.shape) = 1
       THEN {[status |-> "ok", scalar |-> TRUE,
              val |-> LSum([l \in 1..o.r |-> k_if(n, o.dlr_rf[l], o.statistic)], gc.data, o.r)]}
  ELSE LET gc_rs == NdArr(<<o.r, Len(gc.data) \div o.r>>, gc.data)
           kvec  == build_evalvec(o, n)
           gct   == NdTranspose(gc_rs)
           prod  == NdArr(<<gct.shape[1]>>,
                          [k \in 1..gct.shape[1] |-> LSum(kvec, NdRow(gct, k), o.r)])
       IN  {[status |-> out.status, scalar |-> FALSE, val |-> out.val] :
              out \in NdReshape(prod, Tail(gc.shape))}

----------------------------------------------------------------------------
(* State: rf is the frequency vector the caller holds from build_dlr_rf,   *)
(* op the operator object the caller holds, ret the call that has just     *)
(* returned, with its arguments and outcome, until the caller takes the    *)
(* result (the library is synchronous: one call at a time), diag the       *)
(* number of lines the most recent call wrote to std::cerr.                *)

\* cutoffs the operators are built with, in units of 1/2
OpLambdaVals == {-2, 0, 4}

\* tolerances the frequency vector handed to the operators is built with
OpEpsVals == {<<1, -10>>}

Init ==
  /\ rf = NoRf
  /\ op = NoOp
  /\ ret = NoRet
  /\ diag = 0

\* fineparams(lambda, p)
Fineparams(h, p) ==
  /\ ret = NoRet
  /\ ret' = [call |-> "fineparams", args |-> [h |-> h, p |-> p], out |-> fineparams(h, p)]
  /\ diag' = 0
  /\ UNCHANGED <<rf, op>>

\* build_dlr_rf(lambda, eps, symmetrize)
BuildDlrRf(h, eps, symmetrize) ==
  /\ op = NoOp /\ ret = NoRet
  /\ \E out \in build_dlr_rf(h, eps, symmetrize) :
    /\ ret' = [call |-> "build_dlr_rf",
               args |-> [h |-> h, eps |-> eps, symmetrize |-> symmetrize], out |-> out]
    /\ rf' = IF out.status = "ok"
             THEN [set |-> TRUE, v |-> out.val, symmetrize |-> symmetrize, eps |-> eps]
             ELSE rf
    /\ diag' = IF out.warned THEN 1 ELSE 0
    /\ UNCHANGED op

\* the frequency vectors a constructor is called with: a caller's own, or
\* the one build_dlr_rf returned; from names which
RfArgs ==
  IF op # NoOp \/ ret # NoRet THEN {}
  ELSE {[v |-> s, from |-> "caller"] : s \in CallerRf}
       \cup (IF rf.set /\ Len(rf.v) > 0
             THEN {[v |-> rf.v, from |-> IF rf.symmetrize THEN "build_sym" ELSE "build"]}
             ELSE {})

\* a constructor call with outcome out: the caller builds one operator from
\* its frequencies and keeps it; a failed construction leaves none
Construct(call, args, out) ==
  /\ ret' = [call |-> call, args |-> args, out |-> [status |-> out.status]]
  /\ op' = IF out.status = "ok" THEN out.obj ELSE op
  /\ diag' = 0
  /\ UNCHANGED rf

NewImfreq(h, a, statistic, symmetrize) ==
  /\ op = NoOp /\ ret = NoRet
  /\ \E out \in imfreq_ops(h, a.v, statistic, symmetrize) :
    Construct("imfreq_ops",
              [h |-> h, dlr_rf |-> a.v, from |-> a.from, statistic |-> statistic,
               symmetrize |-> symmetrize], out)

NewImfreqStat(h, a, statistic) ==
  /\ op = NoOp /\ ret = NoRet
  /\ \E out \in imfreq_ops_stat(h, a.v, statistic) :
    Construct("imfreq_ops_stat",
              [h |-> h, dlr_rf |-> a.v, from |-> a.from, statistic |-> statistic], out)

NewImtime(h, a, symmetrize) ==
  /\ op = NoOp /\ ret = NoRet
  /\ \E out \in imtime_ops(h, a.v, symmetrize) :
    Construct("imtime_ops",
              [h |-> h, dlr_rf |-> a.v, from |-> a.from, symmetrize |-> symmetrize], out)

\* the caller's arrays after a transform call: the array is taken by const
\* reference, its reshape is a view of it, and getrs overwrites gct, the
\* matrix copied from the transposed view
CallerArrays(call, args, out) == args

\* a transform call on the imaginary frequency operator
Transform(call, args, out) ==
  /\ op.kind = "imfreq"
  /\ ret = NoRet
  /\ ret' = [call |-> call, args |-> args, out |-> out,
             after |-> CallerArrays(call, args, out)]
  /\ diag' = 0
  /\ UNCHANGED <<rf, op>>

\* coefficient arrays passed to op: leading dimension r-1, r or r+1
CoefArgs == IF op.kind = "imfreq" /\ ret = NoRet THEN {c \in CoefArrays : Abs(Len(c) - op.r) <= 1} ELSE {}

\* value arrays passed to op
ValueArgs == IF op.kind = "imfreq" /\ ret = NoRet THEN ValueArrays(op) ELSE {}

\* evaluation points passed to op: its nodes and one point off the grid
EvalPoints == IF op.kind = "imfreq" /\ ret = NoRet THEN Range(op.dlr_if) \cup {7} ELSE {}

\* relative times passed to op: its nodes and two points off the grid
TimePoints == IF op.kind = "imtime" /\ ret = NoRet THEN Range(op.dlr_it) \cup {-3, 3} ELSE {}

Vals2coefs(g) ==
  \E out \in vals2coefs(op, g) : Transform("vals2coefs", [g |-> g], out)

Vals2coefsBeta(beta, g) ==
  \E out \in vals2coefs_beta(op, beta, g) :
    Transform("vals2coefs_beta", [beta |-> beta, g |-> g], out)

Coefs2vals(gc) ==
  \E out \in coefs2vals(op, gc) : Transform("coefs2vals", [gc |-> gc], out)

Coefs2valsBeta(beta, gc) ==
  \E out \in coefs2vals_beta(op, beta, gc) :
    Transform("coefs2vals_beta", [beta |-> beta, gc |-> gc], out)

Coefs2eval(gc, n) ==
  Transform("coefs2eval", [gc |-> gc, n |-> n], coefs2eval(op, gc, n))

Coefs2evalBeta(beta, gc, n) ==
  Transform("coefs2eval_beta", [beta |-> beta, gc |-> gc, n |-> n],
            coefs2eval_beta(op, beta, gc, n))

\* imtime_ops::build_evalvec(t) at a node or off the grid
ItBuildEvalvec(t) ==
  /\ op.kind = "imtime"
  /\ ret = NoRet
  /\ ret' = [call |-> "it_build_evalvec", args |-> [t |-> t],
             out |-> [status |-> "ok", val |-> it_build_evalvec(op, t)]]
  /\ diag' = 0
  /\ UNCHANGED <<rf, op>>

----------------------------------------------------------------------------
(* Persistence of imfreq_ops.  A group is a record of its format tag and   *)
(* its datasets; scalars carry the type they are written with.             *)

\* a format string without the library prefix
hdf5_format_short == "dlr::imfreq_ops"

\* hdf5_format()
hdf5_format == "cppdlr::imfreq_ops"

\* the tag h5_write writes and the tag h5_read requires
H5WriteTag == "cppdlr::imfreq_ops"

H5ReadTag == "cppdlr::imfreq_ops"

H5Double(x) == [type |-> "double", val |-> x]

H5Int(x) == [type |-> "int", val |-> x]

\* get_if2cf_lu() and get_if2cf_piv(): the two arrays of a factorization,
\* both empty when none was computed
LuMatrix(lu) ==
  IF lu.set THEN [set |-> TRUE, of |-> lu.of, info |-> lu.info] ELSE [set |-> FALSE]

LuPiv(lu) ==
  IF lu.set THEN [set |-> TRUE, of |-> lu.of, n |-> lu.n] ELSE [set |-> FALSE]

\* the member if2cf{if2cf_lu, if2cf_piv}
JoinLu(l, p) ==
  IF l.set /\ p.set THEN [set |-> TRUE, of |-> l.of, n |-> p.n, info |-> l.info]
  ELSE NoLu

\* h5_write(fg, subgroup_name, m): the group it creates
h5_write(m) ==
  [format    |-> H5WriteTag,
   lambda    |-> H5Double(m.lambda),
   statistic |-> H5Int(m.statistic),
   rf        |-> m.dlr_rf,
   if        |-> m.dlr_if,
   cf2if     |-> m.cf2if,
   if2cf_lu  |-> LuMatrix(m.lu),
   if2cf_piv |-> LuPiv(m.lu)]

\* a constructor from stored fields that takes the rank from the nodes
imfreq_ops_nodesrank(lambda, dlr_rf, statistic, dlr_if, cf2if, if2cf_lu, if2cf_piv) ==
  [kind |-> "imfreq", lambda |-> lambda, statistic |-> statistic, r |-> Len(dlr_if),
   dlr_rf |-> dlr_rf, dlr_if |-> dlr_if, cf2if |-> cf2if,
   lu |-> JoinLu(if2cf_lu, if2cf_piv)]

\* imfreq_ops(lambda, dlr_rf, statistic, dlr_if, cf2if, if2cf_lu, if2cf_piv)
imfreq_ops_stored(lambda, dlr_rf, statistic, dlr_if, cf2if, if2cf_lu, if2cf_piv) ==
  [kind |-> "imfreq", lambda |-> lambda, statistic |-> statistic, r |-> Len(dlr_rf),
   dlr_rf |-> dlr_rf, dlr_if |-> dlr_if, cf2if |-> cf2if,
   lu |-> JoinLu(if2cf_lu, if2cf_piv)]

\* h5_read(fg, subgroup_name, m) on the group gr: the operator assigned to
\* m, or the error of the format assertion
h5_read(gr) ==
  IF gr.format # H5ReadTag
  THEN [status |-> "runtime_error", msg |-> "format"]
  ELSE [status |-> "ok",
        obj |-> imfreq_ops_stored(gr.lambda.val, gr.rf, gr.statistic.val, gr.if,
                                  gr.cf2if, gr.if2cf_lu, gr.if2cf_piv)]

\* what the accessors of an operator return
Accessors(o) ==
  [lambda |-> o.lambda, statistic |-> o.statistic, rank |-> o.r,
   rfnodes |-> o.dlr_rf, ifnodes |-> o.dlr_if, cf2if |-> o.cf2if,
   if2cf_lu |-> LuMatrix(o.lu), if2cf_piv |-> LuPiv(o.lu)]

\* format tags of the groups a reader meets: this writer's and another's
H5Tags == {H5WriteTag, "dlr::imfreq_ops"}

\* h5_write of the operator
H5Write ==
  /\ op.kind = "imfreq"
  /\ ret = NoRet
  /\ ret' = [call |-> "h5_write", args |-> [m |-> "op"],
             out |-> [status |-> "ok", gr |-> h5_write(op)]]
  /\ diag' = 0
  /\ UNCHANGED <<rf, op>>

\* h5_read of the group just written, or of one with the same datasets
\* under the tag of another writer
H5Read(tag) ==
  /\ ret.call = "h5_write"
  /\ LET gr == [ret.out.gr EXCEPT !.format = tag]
     IN  ret' = [call |-> "h5_read", args |-> [gr |-> gr], out |-> h5_read(gr)]
  /\ diag' = 0
  /\ UNCHANGED <<rf, op>>

----------------------------------------------------------------------------
(* The caller's frequency array after construction *)

DlrRfMember_view == "vector_const_view"

\* the type of the member the constructor initialises from its argument
\* dlr_rf: an owning vector, so the initialiser copies the elements
DlrRfMember == "vector"

\* values the caller writes into its frequency array
RfWriteVals == {0, 3}

\* the caller changes entry i of the array it constructed op from to v; an
\* operator holding a view of that array would see the write
CallerWritesRf(i, v) ==
  /\ op.kind = "imfreq"
  /\ ret = NoRet
  /\ rf.set /\ op.dlr_rf = rf.v
  /\ i \in 1..Len(rf.v) /\ v # rf.v[i]
  /\ rf' = [rf EXCEPT !.v[i] = v]
  /\ op' = IF DlrRfMember = "vector" THEN op ELSE [op EXCEPT !.dlr_rf = rf'.v]
  /\ ret' = [call |-> "caller_write", args |-> [i |-> i, v |-> v],
             out |-> [status |-> "ok"]]
  /\ diag' = 0

----------------------------------------------------------------------------
(* The caller *)

\* the caller takes the result of the call that returned
Take ==
  /\ ret # NoRet
  /\ ret' = NoRet
  /\ UNCHANGED <<rf, op, diag>>

Next ==
  \/ Take
  \/ \E h \in OpLambdaVals, p \in PVals : Fineparams(h, p)
  \/ \E h \in OpLambdaVals, eps \in OpEpsVals : BuildDlrRf(h, eps, TRUE)
  \/ \E h \in OpLambdaVals, a \in RfArgs, s \in Statistics, sym \in BOOLEAN : NewImfreq(h, a, s, sym)
  \/ \E h \in OpLambdaVals, a \in RfArgs, s \in Statistics : NewImfreqStat(h, a, s)
  \/ \E h \in OpLambdaVals, a \in RfArgs, sym \in BOOLEAN : NewImtime(h, a, sym)
  \/ \E g \in ValueArgs : Vals2coefs(g)
  \/ \E beta \in BetaVals, g \in ValueArgs : Vals2coefsBeta(beta, g)
  \/ \E gc \in CoefArgs : Coefs2vals(gc)
  \/ \E beta \in BetaVals, gc \in CoefArgs : Coefs2valsBeta(beta, gc)
  \/ \E gc \in CoefArgs, n \in EvalPoints : Coefs2eval(gc, n)
  \/ \E beta \in BetaVals, gc \in CoefArgs, n \in EvalPoints : Coefs2evalBeta(beta, gc, n)
  \/ \E t \in TimePoints : ItBuildEvalvec(t)
  \/ H5Write
  \/ \E tag \in H5Tags : H5Read(tag)
  \/ \E i \in 1..MaxRank, v \in RfWriteVals : CallerWritesRf(i, v)

Spec == Init /\ [][Next]_vars

\* build_rf_fine(fine) on the fineparams object just constructed
BuildRfFine ==
  /\ ret.call = "fineparams" /\ ret.out.status = "ok"
  /\ ret' = [call |-> "build_rf_fine", args |-> [fine |-> ret.out.obj],
             out |-> [status |-> "ok", val |-> build_rf_fine_om(ret.out.obj)]]
  /\ diag' = 0
  /\ UNCHANGED <<rf, op>>

\* build_it_fine(fine) on the fineparams object just constructed
BuildItFine ==
  /\ ret.call = "fineparams" /\ ret.out.status = "ok"
  /\ ret' = [call |-> "build_it_fine", args |-> [fine |-> ret.out.obj],
             out |-> [status |-> "ok", val |-> build_it_fine_tw(ret.out.obj)]]
  /\ diag' = 0
  /\ UNCHANGED <<rf, op>>

\* cutoffs fineparams is called with on its own, in units of 1/2: also
\* 1.5, 8, 8.5, 16 and 20.5
FineLambdaVals == LambdaVals \cup {3, 16, 17, 32, 41}

\* the construction of the fine grid parameters and of the frequencies
NextBuild ==
  \/ Take
  \/ \E h \in FineLambdaVals, p \in PVals : Fineparams(h, p)
  \/ \E h \in LambdaVals, eps \in EpsVals, sym \in BOOLEAN : BuildDlrRf(h, eps, sym)
  \/ BuildRfFine
  \/ BuildItFine

SpecBuild == Init /\ [][NextBuild]_vars

----------------------------------------------------------------------------
(* The Gram-Schmidt routine called on its own, as the tests call it *)

\* matrix entries, real and complex: of the square matrices, and of the
\* matrices with three rows or three columns
PivEntries == {CInt(0, 0), CInt(1, 0), CInt(2, 0), CInt(0, 1)}

PivEntriesWide == {CInt(0, 0), CInt(1, 0), CInt(0, 1)}

\* the m x n matrices over a set of entries
Mat(m, n, E) == [1..m -> [1..n -> E]]

PivMatrices ==
  Mat(2, 2, PivEntries) \cup Mat(3, 2, PivEntriesWide) \cup Mat(2, 3, PivEntriesWide)

\* tolerances: one that stops at a zero residual only, one that truncates
PivEps == {Rat(1, 1000), Rat(3, 4)}

\* pivrgs(a, eps)
Pivrgs(a, eps) ==
  /\ op = NoOp /\ rf = NoRf /\ ret = NoRet
  /\ ret' = [call |-> "pivrgs", args |-> [a |-> a, eps |-> eps], out |-> pivrgs_gs(a, eps)]
  /\ diag' = 0
  /\ UNCHANGED <<rf, op>>

\* the matrix of the pivot rows of a, in their selected order
PivotRows(a, piv) == [i \in 1..Len(piv) |-> a[piv[i] + 1]]

\* pivrgs(athin, eps) on the pivot rows of the call that returned
PivrgsThin ==
  /\ ret.call = "pivrgs" /\ ret.out.status = "ok"
  /\ LET athin == PivotRows(ret.args.a, ret.out.piv)
     IN  ret' = [call |-> "pivrgs_thin",
                 args |-> [a |-> athin, eps |-> ret.args.eps, of |-> ret.out],
                 out |-> pivrgs_gs(athin, ret.args.eps)]
  /\ diag' = 0
  /\ UNCHANGED <<rf, op>>

\* pivrgs with a target rank in place of the tolerance
PivrgsRank(a, r_target) ==
  /\ op = NoOp /\ rf = NoRf /\ ret = NoRet
  /\ ret' = [call |-> "pivrgs_rank", args |-> [a |-> a, r_target |-> r_target],
             out |-> pivrgs_gs_rank(a, r_target)]
  /\ diag' = 0
  /\ UNCHANGED <<rf, op>>

\* the matrices a caller that holds no pending result passes
PivArgs == IF ret = NoRet THEN PivMatrices ELSE {}

\* target ranks, and the matrices passed with them
PivTargets == 1..3

PivRankArgs == IF ret = NoRet THEN Mat(2, 2, PivEntries) \cup Mat(3, 2, PivEntriesWide) ELSE {}

NextPiv ==
  \/ Take
  \/ \E a \in PivArgs, eps \in PivEps : Pivrgs(a, eps)
  \/ \E a \in PivRankArgs, r_target \in PivTargets : PivrgsRank(a, r_target)
  \/ PivrgsThin

SpecPiv == Init /\ [][NextPiv]_vars

----------------------------------------------------------------------------
(* The imaginary time kernel evaluated on its own.  The value is          *)
(* exp(num) / (1 + exp(den)); what is kept of it is the two arguments of   *)
(* exp, as rationals, and whether the quotient is formed from finite       *)
(* numbers: exp of an argument <= 0 lies in [0, 1], exp of an argument > 0 *)
(* may overflow to infinity.                                               *)

RLe(a, b) == ~RLt(b, a)

\* k_it_abs(t, om): the arguments of the two exponentials
k_it_abs_exp(t, om) ==
  IF RLe(RZero, om)
  THEN [num |-> RMul(RNeg(t), om), den |-> RNeg(om)]
  ELSE [num |-> RMul(RAdd(RInt(1), RNeg(t)), om), den |-> om]

\* a kernel that does not branch on the sign of t
k_it_exp_nobranch(t, om) == k_it_abs_exp(t, om)

\* k_it(t, om): the arguments of the two exponentials
k_it_exp(t, om) ==
  IF RLe(RZero, t) THEN k_it_abs_exp(t, om) ELSE k_it_abs_exp(RNeg(t), RNeg(om))

\* the range of the double exp(num) / (1.0 + exp(den))
KRange(e) ==
  IF RLe(e.num, RZero) THEN "in [0, 1]"
  ELSE IF RLe(e.den, RZero) THEN "in (0, inf]"
  ELSE "in (0, inf] or NaN"

\* relative times, in and beyond [-1, 1], and frequencies
TauVals == {Rat(k, 4) : k \in -6..6}

KOmVals == {RInt(k) : k \in -5..5} \cup {RInt(-800), RInt(800)}

\* k_it(t, om)
KIt(t, om) ==
  /\ op = NoOp /\ rf = NoRf /\ ret = NoRet
  /\ ret' = [call |-> "k_it", args |-> [t |-> t, om |-> om],
             out |-> [status |-> "ok", exp |-> k_it_exp(t, om),
                      range |-> KRange(k_it_exp(t, om))]]
  /\ diag' = 0
  /\ UNCHANGED <<rf, op>>

NextKernel ==
  \/ Take
  \/ \E t \in TauVals, om \in KOmVals : KIt(t, om)

SpecKernel == Init /\ [][NextKernel]_vars

----------------------------------------------------------------------------
(* The transforms called with matrix-valued Green's functions *)

\* frequency vectors the operators are built on
NdRfs == {<<1>>, <<-1, 1>>, <<-2, 2>>}

NdRfArgs ==
  IF op # NoOp \/ ret # NoRet THEN {}
  ELSE {[v |-> s, from |-> "caller"] : s \in NdRfs}

\* trailing shapes: none (rank 1), one axis, two axes of two columns in
\* all, and the 2 x 2 orbital block of the tests
NdTrailing == {<<>>, <<2>>, <<1, 2>>, <<2, 1>>}

\* rows of an array with a 2 x 2 orbital block
NdBlockRows == {<<RInt(1), RInt(2), RInt(2), RInt(1)>>, <<RInt(2), RInt(1), RInt(1), RInt(1)>>}

\* coefficient arrays of leading dimension r
NdCoefs(r) ==
  UNION {{NdArr(<<r>> \o tr, d) : d \in [1..(r * NdSize(tr)) -> {RInt(v) : v \in CoefVals}]} :
           tr \in NdTrailing}
  \cup {NdArr(<<r, 2, 2>>, NdFromRows(rows, 4).data) : rows \in [1..r -> NdBlockRows]}

\* the slice of an array at the trailing index k: a vector along the
\* leading axis
NdSlice(a, k) ==
  LET d == Len(a.data) \div a.shape[1]
  IN  [i \in 1..a.shape[1] |-> a.data[(i - 1) * d + k]]

\* number of trailing indices of an array
NdCols(a) == Len(a.data) \div a.shape[1]

\* the values at the nodes of o of the Green's function with coefficients
\* c, as the tests fill g(i, _, _)
NdSample(o, c) ==
  LET d == NdCols(c)
  IN  NdArr(<<Len(o.dlr_if)>> \o Tail(c.shape),
            [x \in 1..(Len(o.dlr_if) * d) |->
               SampleAt(o, NdSlice(c, ((x - 1) % d) + 1), o.dlr_if[((x - 1) \div d) + 1])])

NdCoefArgs == IF op.kind = "imfreq" /\ ret = NoRet THEN NdCoefs(op.r) ELSE {}

NdValueArgs ==
  IF op.kind = "imfreq" /\ ret = NoRet THEN {NdSample(op, c) : c \in NdCoefs(op.r)} ELSE {}

Vals2coefsNd(g) ==
  \E out \in vals2coefs_nd(op, g) : Transform("vals2coefs_nd", [g |-> g], out)

Coefs2valsNd(gc) ==
  \E out \in coefs2vals_nd(op, gc) : Transform("coefs2vals_nd", [gc |-> gc], out)

Coefs2evalNd(gc, n) ==
  \E out \in coefs2eval_nd(op, gc, n) : Transform("coefs2eval_nd", [gc |-> gc, n |-> n], out)

NextNd ==
  \/ Take
  \/ \E a \in NdRfArgs, s \in Statistics, sym \in BOOLEAN : NewImfreq(4, a, s, sym)
  \/ \E a \in NdRfArgs, s \in Statistics : NewImfreqStat(4, a, s)
  \/ \E g \in NdValueArgs : Vals2coefsNd(g)
  \/ \E gc \in NdCoefArgs : Coefs2valsNd(gc)
  \/ \E gc \in NdCoefArgs, n \in EvalPoints : Coefs2evalNd(gc, n)

SpecNd == Init /\ [][NextNd]_vars

----------------------------------------------------------------------------
(* arraymult: the product of two arrays *)

\* largest extent of an axis, and most elements of both operands together
MultDim == 2

MultSize == 8

\* a number is a pair <<re, im>> of integers; a double has im = 0
ZAdd(x, y) == <<x[1] + y[1], x[2] + y[2]>>

ZMul(x, y) == <<x[1] * y[1] - x[2] * y[2], x[1] * y[2] + x[2] * y[1]>>

RECURSIVE ZSum(_)
ZSum(s) == IF s = <<>> THEN <<0, 0>> ELSE ZAdd(Head(s), ZSum(Tail(s)))

\* an array with its element type; data holds the elements in row-major
\* order
TArr(type, shape, data) == [type |-> type, shape |-> shape, data |-> data]

\* the element type of a product of elements of types ta and tb
Promote(ta, tb) == IF ta = "dcomplex" \/ tb = "dcomplex" THEN "dcomplex" ELSE "double"

\* a(i), a(i, j), a(i, j, k) with indices from 0
At1(a, i) == a.data[i + 1]

At2(a, i, j) == a.data[i * a.shape[2] + j + 1]

At3(a, i, j, k) == a.data[(i * a.shape[2] + j) * a.shape[3] + k + 1]

arraymult_outer_swapped(a, b) ==
  LET ra == Len(a.shape)
      p  == a.shape[ra]
      m  == Len(a.data) \div p
      n  == Len(b.data) \div p
  IN  TArr(Promote(a.type, b.type),
           Tail(b.shape) \o SubSeq(a.shape, 1, ra - 1),
           [x \in 1..(m * n) |->
              LET i == (x - 1) \div n
                  j == (x - 1) % n
              IN  ZSum([l \in 1..p |-> ZMul(a.data[i * p + l], b.data[(l - 1) * n + j + 1])])])

\* arraymult(a, b): a is reshaped to an m x p matrix, p its last extent, b
\* to a p x n matrix, the two matrices are multiplied, and the product is
\* reshaped to the outer extents of a followed by the outer extents of b
arraymult(a, b) ==
  LET ra == Len(a.shape)
      p  == a.shape[ra]
      m  == Len(a.data) \div p
      n  == Len(b.data) \div p
  IN  TArr(Promote(a.type, b.type),
           SubSeq(a.shape, 1, ra - 1) \o Tail(b.shape),
           [x \in 1..(m * n) |->
              LET i == (x - 1) \div n
                  j == (x - 1) % n
              IN  ZSum([l \in 1..p |-> ZMul(a.data[i * p + l], b.data[(l - 1) * n + j + 1])])])

\* the expected product of a matrix a (m x n) and an array b (n x p x q):
\* ctrue(i, j, k) = sum over l of a(i, l) * b(l, j, k)
ctrue_matrix_array(a, b) ==
  LET m == a.shape[1]
      n == a.shape[2]
      p == b.shape[2]
      q == b.shape[3]
  IN  TArr("dcomplex", <<m, p, q>>,
           [x \in 1..(m * p * q) |->
              LET i == (x - 1) \div (p * q)
                  j == ((x - 1) \div q) % p
                  k == (x - 1) % q
              IN  ZSum([l \in 1..n |-> ZMul(At2(a, i, l - 1), At3(b, l - 1, j, k))])])

\* the expected product of an array a (m x n x p) and a matrix b (p x q):
\* ctrue(i, j, k) = sum over l of a(i, j, l) * b(l, k)
ctrue_array_array(a, b) ==
  LET m == a.shape[1]
      n == a.shape[2]
      p == a.shape[3]
      q == b.shape[2]
  IN  TArr("dcomplex", <<m, n, q>>,
           [x \in 1..(m * n * q) |->
              LET i == (x - 1) \div (n * q)
                  j == ((x - 1) \div q) % n
                  k == (x - 1) % q
              IN  ZSum([l \in 1..p |-> ZMul(At3(a, i, j, l - 1), At2(b, l - 1, k))])])

\* the expected product of a matrix a (m x n) and a vector b (n):
\* ctrue(i) = sum over j of a(i, j) * b(j)
ctrue_matrix_vector(a, b) ==
  LET m == a.shape[1]
      n == a.shape[2]
  IN  TArr("dcomplex", <<m>>,
           [x \in 1..m |-> ZSum([j \in 1..n |-> ZMul(At2(a, x - 1, j - 1), At1(b, j - 1))])])

\* the expected product of a vector a (m) and an array b (m x n x p):
\* ctrue(i, j) = sum over k of a(k) * b(k, i, j)
ctrue_vector_array(a, b) ==
  LET m == a.shape[1]
      n == b.shape[2]
      p == b.shape[3]
  IN  TArr("double", <<n, p>>,
           [x \in 1..(n * p) |->
              LET i == (x - 1) \div p
                  j == (x - 1) % p
              IN  ZSum([k \in 1..m |-> ZMul(At1(a, k - 1), At3(b, k - 1, i, j))])])

\* elements of the operands: doubles and complex numbers
MultDoubles == {<<1, 0>>, <<-2, 0>>}

MultComplex == {<<0, 1>>, <<1, -1>>}

MultElems(type) == IF type = "double" THEN MultDoubles ELSE MultComplex

\* the arrays of a type and a shape
MultArrays(type, shape) ==
  {TArr(type, shape, d) : d \in [1..NdSize(shape) -> MultElems(type)]}

\* shapes of the rank given, every extent at most MultDim
MultShapes(rank) == [1..rank -> 1..MultDim]

\* pairs of shapes of ranks ra and rb that arraymult accepts: the last
\* extent of the first is the first extent of the second
MultShapePairs(ra, rb) ==
  IF ret # NoRet \/ op # NoOp THEN {}
  ELSE {s \in MultShapes(ra) \X MultShapes(rb) :
          /\ s[1][ra] = s[2][1]
          /\ NdSize(s[1]) + NdSize(s[2]) <= MultSize}

\* arraymult(a, b) called as the test named does
Arraymult(test, a, b) ==
  /\ ret = NoRet
  /\ ret' = [call |-> "arraymult", args |-> [test |-> test, a |-> a, b |-> b],
             out |-> [status |-> "ok", val |-> arraymult(a, b)]]
  /\ diag' = 0
  /\ UNCHANGED <<rf, op>>

\* a double matrix times a complex array of rank 3
MultMatrixArray ==
  \E s \in MultShapePairs(2, 3) :
    \E a \in MultArrays("double", s[1]), b \in MultArrays("dcomplex", s[2]) :
      Arraymult("matrix_array", a, b)

\* a complex array of rank 3 times a complex matrix
MultArrayArray ==
  \E s \in MultShapePairs(3, 2) :
    \E a \in MultArrays("dcomplex", s[1]), b \in MultArrays("dcomplex", s[2]) :
      Arraymult("array_array", a, b)

\* a complex matrix times a double vector
MultMatrixVector ==
  \E s \in MultShapePairs(2, 1) :
    \E a \in MultArrays("dcomplex", s[1]), b \in MultArrays("double", s[2]) :
      Arraymult("matrix_vector", a, b)

\* a double vector times a double array of rank 3
MultVectorArray ==
  \E s \in MultShapePairs(1, 3) :
    \E a \in MultArrays("double", s[1]), b \in MultArrays("double", s[2]) :
      Arraymult("vector_array", a, b)

NextMult ==
  \/ Take
  \/ MultMatrixArray
  \/ MultArrayArray
  \/ MultMatrixVector
  \/ MultVectorArray

SpecMult == Init /\ [][NextMult]_vars

----------------------------------------------------------------------------
(* Properties *)

IsImfreq == op.kind = "imfreq"

IsImtime == op.kind = "imtime"

\* the frequencies op was built from are DLR frequencies: pairwise distinct,
\* and closed under negation when the operator is symmetrized
ValidRf ==
  /\ NumRank(op.dlr_rf) = op.r
  /\ op.symmetrize => \A i \in 1..op.r : op.dlr_rf[i] = -op.dlr_rf[op.r + 1 - i]

\* the operator is square: it holds as many nodes as frequencies
Square == Len(op.cf2if) = op.r

\* positions of the node n in the node vector of op
NodeIdx(n) == {i \in 1..Len(op.dlr_if) : op.dlr_if[i] = n}

\* C1: evaluation consistency.  coefs2eval(c, n_if[i]) equals entry i of
\* coefs2vals(c) for every node index i, coefs2eval(beta, c, n_if[i]) equals
\* entry i of coefs2vals(beta, c), and build_evalvec(tau_dlr[i]) of an
\* imtime_ops equals row i of cf2it.
C1_EvalConsistency ==
  /\ (IsImfreq /\ ValidRf /\ ret.call = "coefs2eval" /\ ret.out.status = "ok")
       => \A i \in NodeIdx(ret.args.n) : \A v \in coefs2vals(op, ret.args.gc) :
            v.status = "ok" /\ i <= Len(v.val) /\ v.val[i] = ret.out.val
  /\ (IsImfreq /\ ValidRf /\ ret.call = "coefs2eval_beta" /\ ret.out.status = "ok")
       => \A i \in NodeIdx(ret.args.n) :
            \A v \in coefs2vals_beta(op, ret.args.beta, ret.args.gc) :
              v.status = "ok" /\ i <= Len(v.val) /\ v.val[i] = ret.out.val
  /\ IsImtime => \A i \in 1..op.r : it_build_evalvec(op, op.dlr_it[i]) = op.cf2it[i]

\* C2: in the square case cf2if(i, j) = K(n_if[i], dlr_rf[j], s) for the
\* nodes n_if the operator reports, and the LU factors are those of exactly
\* this matrix.
C2_Cf2ifIsKernelAtNodes ==
  (IsImfreq /\ Square) =>
    /\ \A i \in 1..op.r : \A j \in 1..op.r :
         op.cf2if[i][j] = k_if(op.dlr_if[i], op.dlr_rf[j], op.statistic)
    /\ op.lu.set /\ op.lu.of = op.cf2if

\* the fine time grid imtime_ops selects from
OpTimeGrid == build_it_fine(FineFields(op.lambda, DefaultP))

StrictlyAscending(s) == \A i \in 1..(Len(s) - 1) : s[i] < s[i + 1]

C4_BetaRoundTrip ==
  /\ (IsImfreq /\ ValidRf /\ ret.call = "coefs2vals_beta" /\ Len(ret.args.gc) = op.r)
       => /\ ret.out.status = "ok"
          /\ Len(ret.out.val) = Len(ret.args.gc)
          /\ ret.out \in coefs2vals(op, MulCoefs(ret.args.beta, ret.args.gc))
          /\ \A u \in vals2coefs_beta(op, ret.args.beta, ret.out.val) :
               u.status = "ok" /\ u.val = ret.args.gc
  /\ (IsImfreq /\ ValidRf /\ ret.call = "vals2coefs_beta" /\ Len(ret.args.g) = op.r)
       => /\ ret.out.status = "ok"
          /\ ret.out \in vals2coefs(op, DivArr(ret.args.g, ret.args.beta))
          /\ ret.out.sol.exact =>
               \A v \in coefs2vals_beta(op, ret.args.beta, ret.out.val) :
                 v.status = "ok" /\ v.val = ret.args.g

TransformCalls ==
  {"vals2coefs", "vals2coefs_beta", "coefs2vals", "coefs2vals_beta", "coefs2eval",
   "coefs2eval_beta"}

\* the array argument of a transform call
ArrayArg(c) == IF c.call \in {"vals2coefs", "vals2coefs_beta"} THEN c.args.g ELSE c.args.gc

LambdaCalls == {"build_dlr_rf", "imfreq_ops", "imfreq_ops_stat", "imtime_ops"}

\* C6: fineparams(lambda, p) with lambda <= 0 or p <= 0 fails with a runtime
\* error, and so does every call that derives fine grid parameters from a
\* lambda <= 0 (build_dlr_rf, imtime_ops, imfreq_ops): the call returns no
\* object, no frequency vector, and the caller is left without an operator.
C6_BadLambdaFails ==
  /\ (ret.call = "fineparams" /\ (ret.args.h <= 0 \/ ret.args.p <= 0)) =>
       /\ ret.out.status = "runtime_error"
       /\ "obj" \notin DOMAIN ret.out
  /\ (ret.call \in LambdaCalls /\ ret.args.h <= 0) =>
       /\ ret.out.status = "runtime_error"
       /\ "val" \notin DOMAIN ret.out
       /\ ret.call # "build_dlr_rf" => op = NoOp

\* an operator construction with lambda = 0 that threw
C6_Witness ==
  /\ ret.call = "imtime_ops" /\ ret.args.h = 0
  /\ ret.out.status = "runtime_error" /\ op = NoOp

\* the tolerance lies in the open interval (0, 1)
EpsInRange(eps) == DecLt(DecZero, eps) /\ DecLt(eps, DecOne)

\* C7 as stated: build_dlr_rf with eps outside (0, 1) fails with a runtime
\* error and returns no frequency vector.
C7_EpsRangeRejected ==
  (ret.call = "build_dlr_rf" /\ ~EpsInRange(ret.args.eps)) =>
    /\ ret.out.status = "runtime_error"
    /\ "val" \notin DOMAIN ret.out

\* C7: build_dlr_rf does not validate eps.  It fails, with the runtime error
\* of fineparams, exactly when lambda <= 0, whatever eps is; for lambda > 0
\* it returns a frequency vector also when eps lies outside (0, 1).
C7_EpsNotValidated ==
  ret.call = "build_dlr_rf" =>
    /\ ret.out.status = "runtime_error" <=> ret.args.h <= 0
    /\ ret.out.status = "ok" <=> ret.args.h > 0
    /\ ret.out.status = "ok" => (rf.set /\ rf.v = ret.out.val)

\* a call with eps = 2 and lambda > 0 that returned a vector
C7_Witness ==
  /\ ret.call = "build_dlr_rf" /\ ret.args.eps = <<2, 0>> /\ ret.args.h > 0
  /\ ret.out.status = "ok" /\ rf.set

\* C8 as stated: build_dlr_rf writes a warning exactly when eps <= 1e-14,
\* eps = 1e-14 included, and none for eps above 1e-14; the warning does not
\* stop the call, which returns frequencies for lambda > 0.
C8_WarnsAtOrBelow ==
  ret.call = "build_dlr_rf" =>
    /\ diag = 1 <=> ~DecLt(WarnEps, ret.args.eps)
    /\ (diag = 1 /\ ret.args.h > 0) => (ret.out.status = "ok" /\ rf.v = ret.out.val)

\* C8: build_dlr_rf writes a warning exactly when eps < 1e-14: none at
\* eps = 1e-14 and none above.  The warning does not stop the call, which
\* returns frequencies for lambda > 0.
C8_WarnsStrictlyBelow ==
  ret.call = "build_dlr_rf" =>
    /\ diag = 1 <=> DecLt(ret.args.eps, WarnEps)
    /\ diag \in {0, 1}
    /\ (diag = 1 /\ ret.args.h > 0) => (ret.out.status = "ok" /\ rf.v = ret.out.val)

\* a call with eps = 1e-14 that returned frequencies without a warning
C8_Witness ==
  /\ ret.call = "build_dlr_rf" /\ ret.args.eps = WarnEps
  /\ diag = 0 /\ ret.out.status = "ok"

\* C9: an operator is never built on a factorization that getrf reported
\* singular (info > 0): such a construction fails.
C9_SingularLuFails ==
  ((IsImfreq \/ IsImtime) /\ op.lu.set) => op.lu.info = 0

\* C10: for frequencies from build_dlr_rf(lambda, eps, SYM), the nodes of
\* imfreq_ops(lambda, dlr_rf, statistic, SYM) are pairwise distinct and
\* closed under n -> -n - s; for Boson there are r + 1 of them, 0 among
\* them, and cf2if is (r + 1) x r; for Fermion there are r; the symmetric
\* selection returned exactly the number of rows asked for.
C10_SymmetricNodes ==
  (IsImfreq /\ op.symmetrize /\ rf.set /\ rf.symmetrize /\ op.dlr_rf = rf.v) =>
    LET nodes == Range(op.dlr_if)
        cnt   == IF op.statistic = Boson THEN op.r + 1 ELSE op.r
    IN  /\ Len(op.dlr_if) = cnt
        /\ Cardinality(nodes) = cnt
        /\ \A n \in nodes : (-n - op.statistic) \in nodes
        /\ op.statistic = Boson => 0 \in nodes
        /\ Len(op.cf2if) = cnt
        /\ \A i \in 1..Len(op.cf2if) : Len(op.cf2if[i]) = op.r
        /\ Len(op.piv) = cnt

\* a symmetrized bosonic operator on frequencies build_dlr_rf selected
C10_Witness ==
  /\ IsImfreq /\ op.symmetrize /\ op.statistic = Boson
  /\ rf.set /\ rf.symmetrize /\ op.dlr_rf = rf.v
  /\ Len(op.dlr_if) = 3

\* the operator is the symmetrized bosonic one
SymBoson == IsImfreq /\ op.statistic = Boson /\ op.symmetrize

\* C11: on a symmetrized bosonic imfreq_ops, vals2coefs takes a value array
\* whose leading dimension is the number of nodes r + 1 and returns r
\* coefficients that solve cf2if * c = g / beta (exactly, when g is
\* sampled from a DLR expansion); no LU factorization is stored or used.
C11_SymBosonLeastSquares ==
  (SymBoson /\ ValidRf /\ ret.call \in {"vals2coefs", "vals2coefs_beta"}
     /\ Len(ret.args.g) = Len(op.dlr_if)) =>
    /\ ~op.lu.set
    /\ ret.out.status = "ok"
    /\ Len(ret.out.val) = op.r

\* C12: cf2if(i, j) is K(n_if[i], dlr_rf[j], s) * tanh(dlr_rf[j] / 2) when
\* the operator is bosonic and symmetrized, and the unscaled kernel
\* K(n_if[i], dlr_rf[j], s) for every other operator.
C12_TanhIffSymBoson ==
  (IsImfreq /\ ValidRf) =>
    \A i \in 1..Len(op.cf2if) : \A j \in 1..op.r :
      op.cf2if[i][j] =
        IF op.statistic = Boson /\ op.symmetrize
        THEN TanhScale(k_if(op.dlr_if[i], op.dlr_rf[j], op.statistic))
        ELSE k_if(op.dlr_if[i], op.dlr_rf[j], op.statistic)

\* the fine real frequency grid of the call that returned
RetRfGrid ==
  LET om == build_rf_fine(fineparams(ret.args.h, DefaultP).obj)
  IN  {om[i] : i \in DOMAIN om}

\* C13: build_dlr_rf returns pairwise distinct points of the fine real
\* frequency grid build_rf_fine(fineparams(lambda)), in ascending order.
C13_RfAscendingGridPoints ==
  (ret.call = "build_dlr_rf" /\ ret.out.status = "ok") =>
    /\ StrictlyAscending(ret.out.val)
    /\ Cardinality(Range(ret.out.val)) = Len(ret.out.val)
    /\ Range(ret.out.val) \subseteq RetRfGrid

\* an unsymmetrized call that returned two frequencies or more
C13_Witness ==
  /\ ret.call = "build_dlr_rf" /\ ret.out.status = "ok"
  /\ ~ret.args.symmetrize /\ Len(ret.out.val) >= 2

\* C14: build_dlr_rf(lambda, eps, SYM) returns a vector closed under
\* omega -> -omega, omega[i] = -omega[r-1-i], of even length r.
C14_SymRfClosedUnderNegation ==
  (ret.call = "build_dlr_rf" /\ ret.out.status = "ok" /\ ret.args.symmetrize) =>
    LET v == ret.out.val
        r == Len(v)
    IN  /\ r % 2 = 0
        /\ \A i \in 1..r : v[i] = -v[r + 1 - i]
        /\ \A x \in Range(v) : -x \in Range(v)

\* a symmetrized call that returned four frequencies or more
C14_Witness ==
  /\ ret.call = "build_dlr_rf" /\ ret.out.status = "ok"
  /\ ret.args.symmetrize /\ Len(ret.out.val) >= 4

\* C15: an imtime_ops and an imfreq_ops built from a frequency vector both
\* report the rank r = |dlr_rf| and hold cf2it / cf2if with r columns; the
\* imaginary time operator holds r nodes, the imaginary frequency operator
\* r nodes, or r + 1 when it is bosonic and symmetrized.
C15_RankIsNumberOfFrequencies ==
  /\ IsImtime =>
       /\ op.r = Len(op.dlr_rf)
       /\ Len(op.dlr_it) = op.r
       /\ Len(op.cf2it) = op.r
       /\ \A i \in 1..Len(op.cf2it) : Len(op.cf2it[i]) = Len(op.dlr_rf)
  /\ IsImfreq =>
       /\ op.r = Len(op.dlr_rf)
       /\ Len(op.dlr_if) = IF op.statistic = Boson /\ op.symmetrize THEN op.r + 1 ELSE op.r
       /\ Len(op.cf2if) = Len(op.dlr_if)
       /\ \A i \in 1..Len(op.cf2if) : Len(op.cf2if[i]) = Len(op.dlr_rf)

\* a symmetrized bosonic operator: three nodes on two frequencies
C15_Witness ==
  /\ SymBoson /\ op.r = 2 /\ Len(op.dlr_if) = 3
  /\ ret.call = "imfreq_ops"

\* the matrix has complex entries
IsComplex(a) == \E i \in DOMAIN a : \E k \in DOMAIN a[i] : a[i][k][2] # RZero

\* C16: pivot idempotence.  When pivrgs(A, eps) returns r rows, pivrgs with
\* the same eps on the matrix of the pivot rows of A in their selected
\* order returns r rows, the pivots 0, 1, ..., r-1 and the same Q.
C16_PivotIdempotence ==
  ret.call = "pivrgs_thin" =>
    /\ ret.out.status = "ok"
    /\ Len(ret.out.piv) = Len(ret.args.of.piv)
    /\ ret.out.piv = [i \in 1..Len(ret.args.of.piv) |-> i - 1]
    /\ ret.out.q = ret.args.of.q

\* a rerun on the rows of a complex matrix whose pivots came out of order
C16_Witness ==
  /\ ret.call = "pivrgs_thin" /\ ret.out.status = "ok"
  /\ IsComplex(ret.args.a)
  /\ Len(ret.args.of.piv) = 2 /\ ret.args.of.piv[1] > ret.args.of.piv[2]

\* C17: the rows of Q are orthonormal, Q Q^* = I (Q Q^T = I for a real
\* matrix): distinct rows have inner product 0 and every row has norm 1,
\* on truncated low-rank input and on full-rank square input.
C17_QOrthonormal ==
  (ret.call \in {"pivrgs", "pivrgs_thin"} /\ ret.out.status = "ok") =>
    \A i \in 1..Len(ret.out.q) : \A j \in 1..Len(ret.out.q) :
      LET qi == ret.out.q[i]
          qj == ret.out.q[j]
      IN  /\ RLt(RZero, qi.nsq)
          /\ dotc(qi.u, qj.u, Len(qi.u)) = IF i = j THEN <<qi.nsq, RZero>> ELSE CZero

\* a full-rank square complex matrix orthonormalized with the tiny tolerance
C17_Witness ==
  /\ ret.call = "pivrgs" /\ ret.out.status = "ok"
  /\ IsComplex(ret.args.a) /\ Len(ret.args.a) = 2 /\ Len(ret.args.a[1]) = 2
  /\ ret.args.eps = Rat(1, 1000) /\ Len(ret.out.q) = 2

\* C18: an imfreq_ops written with h5_write and read back with h5_read has
\* the same lambda(), get_statistic(), rank(), get_rfnodes(), get_ifnodes(),
\* get_cf2if(), get_if2cf_lu() and get_if2cf_piv() as the original, the
\* symmetrized bosonic operator without LU factors included; the rank of
\* the reloaded operator is the length of the stored rf.
C18_H5RoundTrip ==
  (ret.call = "h5_read" /\ ret.args.gr = h5_write(op)) =>
    /\ ret.out.status = "ok"
    /\ Accessors(ret.out.obj) = Accessors(op)
    /\ ret.out.obj.r = Len(ret.args.gr.rf)

\* a symmetrized bosonic operator, which holds no LU factors, reloaded
C18_Witness ==
  /\ ret.call = "h5_read" /\ ret.out.status = "ok"
  /\ SymBoson /\ ~op.lu.set /\ Len(op.dlr_if) = op.r + 1
  /\ ret.out.obj.dlr_if = op.dlr_if

\* the datasets of a persisted imfreq_ops
H5Fields == {"lambda", "statistic", "rf", "if", "cf2if", "if2cf_lu", "if2cf_piv"}

\* C19 as stated: the persisted group carries the tag "dlr::imfreq_ops" and
\* the fields lambda, statistic (1 for Fermion, 0 for Boson), rf, if,
\* cf2if, if2cf_lu, if2cf_piv; h5_write, h5_read and hdf5_format() use the
\* same tag.
C19_TagIsDlrImfreqOps ==
  /\ ret.call = "h5_write" =>
       /\ ret.out.gr.format = "dlr::imfreq_ops"
       /\ ret.out.gr.format = hdf5_format
       /\ DOMAIN ret.out.gr = H5Fields \cup {"format"}
       /\ ret.out.gr.statistic = H5Int(IF op.statistic = Fermion THEN 1 ELSE 0)
  /\ ret.call = "h5_read" =>
       (ret.out.status = "ok" <=> ret.args.gr.format = hdf5_format)

\* C19: the persisted group carries the tag "cppdlr::imfreq_ops" and the
\* fields lambda, statistic (1 for Fermion, 0 for Boson), rf, if, cf2if,
\* if2cf_lu, if2cf_piv; the tag h5_write writes, the tag h5_read requires
\* and hdf5_format() are the same, and a group under another tag is
\* refused.
C19_TagIsCppdlrImfreqOps ==
  /\ ret.call = "h5_write" =>
       /\ ret.out.gr.format = "cppdlr::imfreq_ops"
       /\ ret.out.gr.format = hdf5_format
       /\ DOMAIN ret.out.gr = H5Fields \cup {"format"}
       /\ ret.out.gr.statistic = H5Int(IF op.statistic = Fermion THEN 1 ELSE 0)
  /\ ret.call = "h5_read" =>
       (ret.out.status = "ok" <=> ret.args.gr.format = hdf5_format)

\* a fermionic operator written under the tag hdf5_format() returns
C19_Witness ==
  /\ ret.call = "h5_write" /\ op.statistic = Fermion
  /\ ret.out.gr.statistic.val = 1 /\ ret.out.gr.format = hdf5_format

\* the relative time lies in [-1, 1]
InUnitTimes(t) == RLe(RInt(-1), t) /\ RLe(t, RInt(1))

\* C20: for tau in [-1, 1] and any omega, k_it(tau, omega) calls exp only
\* with arguments <= 0, in the numerator and in the denominator, so that
\* no exponential overflows and 0 <= K <= 1.
C20_KitExpArgumentsNonPositive ==
  (ret.call = "k_it" /\ InUnitTimes(ret.args.t)) =>
    /\ RLe(ret.out.exp.num, RZero)
    /\ RLe(ret.out.exp.den, RZero)
    /\ ret.out.range = "in [0, 1]"

\* a negative time with a large positive frequency: the branch
\* k_it_abs(-t, -om), where exp(-t * om) would overflow
C20_Witness ==
  /\ ret.call = "k_it" /\ ret.args.t = Rat(-1, 2) /\ ret.args.om = RInt(800)
  /\ ret.out.exp = [num |-> RInt(-400), den |-> RInt(-800)]

\* the value array of the call is a sampling of a Green's function at the
\* nodes of op, as symcompare_if.cpp fills g and g_sym
SampledAtNodes(g) == \E c \in {x \in CoefArrays : Len(x) = op.r} : g = Sample(op, c)

\* C21: DLR accuracy along the path of symcompare_if.cpp.  Values sampled at
\* the DLR nodes are converted by vals2coefs(beta, g) and the expansion is
\* evaluated by coefs2eval(beta, gc, n); the conversion succeeds for the
\* unsymmetrized and for the symmetrized operator, and the error at a test
\* point that is a node is zero (the test points include every node).
C21_SampledExpansionAccurate ==
  (IsImfreq /\ ValidRf /\ ret.call = "vals2coefs_beta" /\ SampledAtNodes(ret.args.g)) =>
    /\ ret.out.status = "ok"
    /\ ret.out.sol.exact
    /\ \A i \in 1..Len(op.dlr_if) :
         coefs2eval_beta(op, ret.args.beta, ret.out.val, op.dlr_if[i])
           = [status |-> "ok", val |-> ret.args.g[i]]

\* a call of pivrgs that returned (Q, norms, piv)
PivReturned == ret.call \in {"pivrgs", "pivrgs_thin"} /\ ret.out.status = "ok"

\* C22: pivrgs(A, eps) on an m x n matrix returns Q with r rows and n
\* columns, norms and piv of length r, r <= min(m, n) (at most min(m, n)
\* selection steps), piv pairwise distinct row indices in [0, m) and norms
\* non-increasing.
C22_PivrgsShapeAndNorms ==
  PivReturned =>
    LET m == Len(ret.args.a)
        n == Len(ret.args.a[1])
        r == Len(ret.out.q)
    IN  /\ r <= Min(m, n)
        /\ Len(ret.out.norms) = r /\ Len(ret.out.piv) = r
        /\ \A i \in 1..r : Len(ret.out.q[i].u) = n
        /\ \A i \in 1..r : ret.out.piv[i] \in 0..(m - 1)
        /\ \A i, j \in 1..r : i # j => ret.out.piv[i] # ret.out.piv[j]
        /\ \A i \in 1..(r - 1) : ~RLt(ret.out.norms[i], ret.out.norms[i + 1])

\* two rows selected out of three, the last row first, with a strictly
\* smaller second norm
C22_Witness ==
  /\ ret.call = "pivrgs" /\ ret.out.status = "ok"
  /\ Len(ret.args.a) = 3 /\ Len(ret.out.piv) = 2
  /\ ret.out.piv[1] = 2
  /\ RLt(ret.out.norms[2], ret.out.norms[1])

\* |z|^2 of a Gaussian rational
CAbsSq(z) == RAdd(RMul(z[1], z[1]), RMul(z[2], z[2]))

RECURSIVE ProjSq(_, _, _)
\* squared norm of the projection of the row x on the first k rows of q
ProjSq(x, q, k) ==
  IF k = 0 THEN RZero
  ELSE RAdd(ProjSq(x, q, k - 1), RDiv(CAbsSq(dotc(x, q[k].u, Len(x))), q[k].nsq))

\* squared norm of what is left of the row x after the rows of q are
\* projected out
ResidualSq(x, q) == RAdd(NormSq(x), RNeg(ProjSq(x, q, Len(q))))

\* determinant of a 2 x 2 matrix
Det2(a) == CSub(CMul(a[1][1], a[2][2]), CMul(a[1][2], a[2][1]))

FullRankSquare(a) == Len(a) = 2 /\ Len(a[1]) = 2 /\ Det2(a) # CZero

\* the tolerance that, on the matrices of the model, only a zero residual
\* falls below
TinyPivEps == Rat(1, 1000)

\* C23: the stopping rule.  In tolerance mode every selected row has a
\* pivot norm of at least eps times the first pivot norm, and when the
\* selection stops early every row left out has a residual norm below eps
\* times the first pivot norm (the row that triggers the stop is not part
\* of the output); in rank-target mode the number of selected rows is
\* r_target (all rows when there are fewer); a full-rank square matrix run
\* with the tiny tolerance returns all its rows.
C23_StoppingRule ==
  /\ (ret.call = "pivrgs" /\ ret.out.status = "ok") =>
       LET a     == ret.args.a
           m     == Len(a)
           r     == Len(ret.out.piv)
           epssq == RMul(ret.args.eps, ret.args.eps)
       IN  /\ \A i \in 1..r : ~RLt(ret.out.norms[i], RMul(epssq, ret.out.norms[1]))
           /\ (1 <= r /\ r < Min(m, Len(a[1]))) =>
                \A k \in 1..m : (k - 1) \notin Range(ret.out.piv) =>
                  RLt(ResidualSq(a[k], ret.out.q), RMul(epssq, ret.out.norms[1]))
           /\ (FullRankSquare(a) /\ ret.args.eps = TinyPivEps) =>
                (r = m /\ Len(ret.out.q) = m /\ \A i \in 1..m : Len(ret.out.q[i].u) = m)
  /\ (ret.call = "pivrgs_rank" /\ ret.out.status = "ok") =>
       /\ Len(ret.out.piv) = Min(ret.args.r_target, Len(ret.args.a))
       /\ Len(ret.out.q) = Len(ret.out.piv)

\* a full-rank matrix truncated to one row: the second pivot is not zero
\* and is below eps times the first
C23_Witness ==
  /\ ret.call = "pivrgs" /\ ret.out.status = "ok"
  /\ FullRankSquare(ret.args.a)
  /\ ret.args.eps = Rat(3, 4)
  /\ Len(ret.out.piv) = 1

\* squared residual norm of the row x when k rows have been selected
ResidualSqAt(x, q, k) == RAdd(NormSq(x), RNeg(ProjSq(x, q, k)))

\* the rows of a call's matrix not selected before step i, as row numbers
\* counted from 1
RemainingAt(i) ==
  {k \in 1..Len(ret.args.a) : \A j \in 1..(i - 1) : ret.out.piv[j] # k - 1}

CeilOf(h) == CHOOSE c \in 0..h : 2 * c >= h /\ 2 * (c - 1) < h

CeilLog2Of(h) ==
  IF h = 1 THEN -1
  ELSE CHOOSE k \in 0..30 : Pow2(k + 1) >= h /\ (k = 0 \/ Pow2(k) < h)

\* C25: fineparams(lambda, p) with lambda > 0 and p > 0 sets
\* nmax = max(ceil(lambda), 20), npom = max(ceil(log2(lambda)), 1),
\* npt = max(ceil(log2(lambda)) - 2, 1), nom = 2*p*npom and nt = 2*p*npt;
\* npom >= 1, npt >= 1, nmax >= 20, and nom and nt are positive and even.
C25_FineparamsValues ==
  (ret.call = "fineparams" /\ ret.args.h > 0 /\ ret.args.p > 0) =>
    /\ ret.out.status = "ok"
    /\ LET fine == ret.out.obj
           lg   == CeilLog2Of(ret.args.h)
       IN  /\ fine.p = ret.args.p
           /\ fine.nmax = Max(CeilOf(ret.args.h), 20)
           /\ fine.npom = Max(lg, 1)
           /\ fine.npt = Max(lg - 2, 1)
           /\ fine.nom = 2 * ret.args.p * fine.npom
           /\ fine.nt = 2 * ret.args.p * fine.npt
           /\ fine.npom >= 1 /\ fine.npt >= 1 /\ fine.nmax >= 20
           /\ fine.nom > 0 /\ fine.nom % 2 = 0
           /\ fine.nt > 0 /\ fine.nt % 2 = 0

\* lambda = 1/2 with the default p: the logarithm is negative
C25_Witness ==
  /\ ret.call = "fineparams" /\ ret.args.h = 1 /\ ret.args.p = DefaultP
  /\ ret.out.status = "ok"
  /\ ret.out.obj.npom = 1 /\ ret.out.obj.npt = 1 /\ ret.out.obj.nom = 48

\* the cutoff of a fineparams object as a rational
LambdaOf(fine) == Rat(fine.lambda, 2)

\* panel i = 0..np-1 of a half grid of np panels that ends at top: its
\* right endpoint top / 2^(np - 1 - i), its left endpoint the right
\* endpoint of the panel before it, 0 for the first
PanelRight(top, np, i) == RDiv(top, RInt(Pow2(np - 1 - i)))

PanelLeft(top, np, i) == IF i = 0 THEN RZero ELSE PanelRight(top, np, i - 1)

\* the point pt lies on panel i, at node k, with the sign given
OnPanel(pt, top, np, i, k, neg) ==
  /\ pt.neg = neg /\ pt.x = k
  /\ pt.a = PanelLeft(top, np, i) /\ pt.b = PanelRight(top, np, i)

OpNmax == FineFields(op.lambda, DefaultP).nmax

OpKmat == build_k_if(OpNmax, op.dlr_rf, op.statistic)

C28_LeadingAxisOnly ==
  /\ (ret.call = "vals2coefs_nd" /\ ret.out.status = "ok") =>
       /\ ret.out.val.shape = ret.args.g.shape
       /\ \A k \in 1..NdCols(ret.args.g) :
            \A v \in vals2coefs(op, NdSlice(ret.args.g, k)) :
              /\ v.status = "ok"
              /\ NdSlice(ret.out.val, k) = SolVec(v.sol, op.r)
  /\ (ret.call = "coefs2vals_nd" /\ ret.out.status = "ok") =>
       /\ ret.out.val.shape[1] * NdCols(ret.args.gc) = Len(ret.out.val.data)
       /\ \A k \in 1..NdCols(ret.args.gc) :
            \E v \in coefs2vals(op, NdSlice(ret.args.gc, k)) :
              v.status = "ok" /\ NdSlice(ret.out.val, k) = v.val
  /\ (ret.call = "coefs2eval_nd" /\ ret.out.status = "ok") =>
       IF Len(ret.args.gc.shape) = 1
       THEN /\ ret.out.scalar
            /\ ret.out.val = coefs2eval(op, ret.args.gc.data, ret.args.n).val
       ELSE /\ ~ret.out.scalar
            /\ ret.out.val.shape = Tail(ret.args.gc.shape)
            /\ \A k \in 1..NdCols(ret.args.gc) :
                 ret.out.val.data[k] = coefs2eval(op, NdSlice(ret.args.gc, k), ret.args.n).val

\* coefficients of a 2 x 2 matrix-valued function on two frequencies, whose
\* four slices differ, recovered from its values at the nodes
C28_Witness ==
  /\ ret.call = "vals2coefs_nd" /\ ret.out.status = "ok"
  /\ op.r = 2 /\ ret.args.g.shape = <<2, 2, 2>>
  /\ ret.out.val.shape = <<2, 2, 2>>
  /\ NdSlice(ret.out.val, 1) # NdSlice(ret.out.val, 2)
  /\ ret.out.val.data[1] = RInt(1) /\ ret.out.val.data[2] = RInt(2)

\* calls that only read the operator
ReadOnlyCalls == TransformCalls \cup {"it_build_evalvec", "h5_write"}

\* the stored state of an operator the claim lists
StoredState(o) ==
  IF o.kind = "imfreq"
  THEN <<o.dlr_rf, o.dlr_if, o.cf2if, o.lu, o.r, o.lambda, o.statistic>>
  ELSE <<o>>

CTrue(test, a, b) ==
  CASE test = "matrix_array"  -> ctrue_matrix_array(a, b)
    [] test = "array_array"   -> ctrue_array_array(a, b)
    [] test = "matrix_vector" -> ctrue_matrix_vector(a, b)
    [] test = "vector_array"  -> ctrue_vector_array(a, b)

====
